---------------------------- MODULE Spec2Model ----------------------------
(***************************************************************************)
(* A model of the trade execution, risk validation, loss-limit, position   *)
(* reconciliation and crash recovery services of the day_trader backend    *)
(* (src/backend/app/services).  Database tables are sequences of records   *)
(* indexed by primary key; a nullable column holds None or Some(v).        *)
(* Money is counted in whole price units, so the float arithmetic of the   *)
(* source is modelled by exact integer arithmetic.                         *)
(***************************************************************************)
EXTENDS Integers, Sequences, FiniteSets

VARIABLES
    strategies,   \* strategies table: id -> Strategy row
    loss_run,     \* per strategy: losses tracked in a row since it was active with counter 0
    trades,       \* trades table: sequence of Trade rows, id = index
    orders,       \* orders table: sequence of Order rows, id = index
    ib_trades,    \* the broker's orders (ib.trades()), orderId = index
    calls,        \* the execute_signal calls in progress, one per caller
    now,          \* the clock behind datetime.now()
    account,      \* the broker's account summary
    connected,    \* IBKRClient.is_connected
    sizing,       \* input and result of calculate_position_size
    validation,   \* input and result of validate_trade
    broker_positions,  \* the broker's positions, by symbol
    reconciliation,    \* result of reconcile_positions
    system_state,      \* the heartbeat row (system_state table)
    recovery_events,   \* recovery_events table
    recovery_run,      \* what the last run_recovery did and returned
    crash_check,       \* what the last detect_crash saw and returned
    sweeps,            \* update_order_status calls in progress: order and status read
    connection         \* IBKRClient.connect: attempts made, waits slept, outcome

strategyVars == <<strategies, loss_run>>
tradingVars  == <<trades, orders, ib_trades, calls, now>>
brokerVars   == <<account, connected>>
sizerVars    == <<sizing>>
riskVars     == <<validation>>
reconVars    == <<broker_positions, reconciliation>>
recoveryVars == <<system_state, recovery_events, recovery_run, crash_check>>
monitorVars  == <<sweeps>>
clientVars   == <<connection>>
vars == <<strategyVars, tradingVars, brokerVars, sizerVars, riskVars, reconVars, recoveryVars,
          monitorVars, clientVars>>

-----------------------------------------------------------------------------
(* Nullable columns *)
None == <<>>
Some(v) == <<v>>
Val(o) == o[1]

Max(a, b) == IF a >= b THEN a ELSE b
Min(a, b) == IF a <= b THEN a ELSE b

RECURSIVE SeqMin(_)
SeqMin(s) == IF Len(s) = 1 THEN s[1] ELSE Min(s[1], SeqMin(Tail(s)))

-----------------------------------------------------------------------------
(* Tables' keys *)
StrategyIds == {1, 2}
Symbols == {"AAPL", "MSFT"}

(* Bounds of the model *)
MaxLosses == 4            \* consecutive_losses_today is tracked up to here

MaxPrice == 12            \* prices offered to the position sizer: 0..MaxPrice
timeout_seconds == 2      \* _wait_for_fill's poll window, in polls of one second
MaxPositions == 2         \* entries of the broker's position list
MaxTrades == 2            \* rows of the trades table at the start of a reconciliation
MaxRecovered == 1         \* trades recover_extra_position inserts
MaxEvents == 2            \* rows of the recovery_events table
MaxNow == 3               \* the clock of the recovery specification stops here
MaxRetries == 3           \* largest max_retries a connect call is given
MaxClock == 8             \* minutes the clock of the crash check runs to

(* Program constants *)
MAX_CONSECUTIVE_LOSSES == 3
min_bars_required == 100
RISK_PERCENT == 2                     \* percent of the portfolio risked per trade
MAX_POSITION_PERCENT == 20            \* percent of the portfolio in one position
MAX_STRATEGY_ALLOCATION_PERCENT == 50 \* percent of the portfolio in one strategy
stop_loss_pct == 5                    \* strategy parameter, percent
take_profit_pct == 10
crash_timeout_minutes == 5                 \* strategy parameter, percent

-----------------------------------------------------------------------------
(* models/strategy.py: column defaults of a Strategy row *)
NewStrategy ==
    [status |-> "active", active |-> TRUE,
     warm_up_bars_remaining |-> 0, consecutive_losses_today |-> 0]

(* models/trade.py: a Trade row *)
TradeRow(strategy_id, stock_id, entry_time, entry_price, quantity, stop_loss, take_profit, recovered) ==
    [strategy_id |-> strategy_id, stock_id |-> stock_id,
     entry_time |-> entry_time, entry_price |-> entry_price,
     quantity |-> quantity, trade_type |-> "LONG", status |-> "OPEN",
     stop_loss |-> stop_loss, take_profit |-> take_profit,
     exit_time |-> None, exit_price |-> None, profit_loss |-> None,
     recovered |-> recovered, recovery_reason |-> None]

(* A Trade row closed at exit_price: what monitor_protective_orders writes *)
ClosedWithoutPnl(t, exit_time, exit_price) ==
    [t EXCEPT !.status = "CLOSED", !.exit_time = Some(exit_time)]
ClosedAt(t, exit_time, exit_price) ==
    [t EXCEPT !.status = "CLOSED",
              !.exit_time = Some(exit_time),
              !.exit_price = Some(exit_price),
              !.profit_loss = Some(exit_price * t.quantity - t.entry_price * t.quantity)]

-----------------------------------------------------------------------------
(* StrategyService.check_warm_up.  bars is the list of bar counts of the   *)
(* stocks of the watchlist (empty: no stocks).  Returns the new row and    *)
(* the result dictionary.                                                  *)
WarmUpComplete(bars) ==
    Len(bars) > 0 /\ \A i \in 1..Len(bars) : bars[i] >= min_bars_required

BarsNeeded(bars) ==
    IF Len(bars) = 0 THEN min_bars_required
    ELSE Max(0, min_bars_required - SeqMin(bars))

check_warm_up(st, bars) ==
    IF Len(bars) = 0 THEN st
    ELSE LET st1 == [st EXCEPT !.warm_up_bars_remaining = BarsNeeded(bars)]
         IN IF WarmUpComplete(bars)
            THEN IF st1.status = "warming" THEN [st1 EXCEPT !.status = "active"] ELSE st1
            ELSE IF st1.status = "active" THEN [st1 EXCEPT !.status = "warming"] ELSE st1

(* StrategyService.activate_strategy *)
activate_strategy(st, bars) ==
    LET st1 == check_warm_up(st, bars)
    IN IF ~WarmUpComplete(bars)
       THEN [st1 EXCEPT !.status = "warming",
                        !.warm_up_bars_remaining = BarsNeeded(bars)]
       ELSE [st1 EXCEPT !.status = "active", !.active = TRUE,
                        !.warm_up_bars_remaining = 0]

(* StrategyService.pause_strategy *)
pause_strategy(st) == [st EXCEPT !.status = "paused", !.active = FALSE]

(* StrategyService.set_error_status *)
set_error_status(st) == [st EXCEPT !.status = "error", !.active = FALSE]

-----------------------------------------------------------------------------
(* LossLimitDetector *)
check_loss_limit(st) == st.consecutive_losses_today >= MAX_CONSECUTIVE_LOSSES

PauseStatusDropped(st) == st
pause_strategy_on_limit(st) == [st EXCEPT !.status = "paused"]

(* The outcome of track_trade_outcome for a trade id: "not_found" raises   *)
(* ValueError, "skipped" returns early, "loss"/"win" update the counter.   *)
NonPositiveIsLoss(trade_id) ==
    IF trade_id \notin 1..Len(trades) THEN "not_found"
    ELSE IF trades[trade_id].status # "CLOSED" THEN "skipped"
    ELSE IF trades[trade_id].profit_loss = None THEN "skipped"
    ELSE IF Val(trades[trade_id].profit_loss) <= 0 THEN "loss"
    ELSE "win"
TrackOutcome(trade_id) ==
    IF trade_id \notin 1..Len(trades) THEN "not_found"
    ELSE IF trades[trade_id].status # "CLOSED" THEN "skipped"
    ELSE IF trades[trade_id].profit_loss = None THEN "skipped"
    ELSE IF Val(trades[trade_id].profit_loss) < 0 THEN "loss"
    ELSE "win"

track_trade_outcome(st, outcome) ==
    IF outcome = "loss"
    THEN LET st1 == [st EXCEPT !.consecutive_losses_today = @ + 1]
         IN IF check_loss_limit(st1) THEN pause_strategy_on_limit(st1) ELSE st1
    ELSE IF outcome = "win"
    THEN [st EXCEPT !.consecutive_losses_today = 0]
    ELSE st

(* LossLimitDetector.reset_daily_counters *)
ResetAndResume(sts) ==
    [s \in DOMAIN sts |->
        [sts[s] EXCEPT !.consecutive_losses_today = 0,
                       !.status = IF @ = "paused" THEN "active" ELSE @]]
reset_daily_counters(sts) ==
    [s \in DOMAIN sts |->
        IF sts[s].consecutive_losses_today > 0
        THEN [sts[s] EXCEPT !.consecutive_losses_today = 0]
        ELSE sts[s]]

-----------------------------------------------------------------------------
(* PositionSizer.calculate_position_size.  int(x / y) of positive floats   *)
(* is x \div y; a percentage p of v is v * p / 100, so int(v * p% / y) is   *)
(* (v * p) \div (100 * y).                                                  *)
RawQuantity(entry_price, stop_loss, portfolio_value) ==
    (portfolio_value * RISK_PERCENT) \div (100 * (entry_price - stop_loss))

MaxQuantityUncapped(entry_price, portfolio_value) == portfolio_value * RISK_PERCENT
MaxQuantityByValue(entry_price, portfolio_value) ==
    (portfolio_value * MAX_POSITION_PERCENT) \div (100 * entry_price)

(* A ratio x / y * 100 kept exact, as numerator and denominator *)
Percent(x, y) == [num |-> x * 100, den |-> y]

PercentagesOfRawQuantity(entry_price, stop_loss, portfolio_value) ==
    IF entry_price <= 0 \/ stop_loss <= 0 \/ stop_loss >= entry_price
    THEN [error |-> "ValueError"]
    ELSE LET risk_per_share == entry_price - stop_loss
             raw == RawQuantity(entry_price, stop_loss, portfolio_value)
             max_quantity_by_value == MaxQuantityByValue(entry_price, portfolio_value)
             capped == raw > max_quantity_by_value
             quantity == Max(1, IF capped THEN max_quantity_by_value ELSE raw)
         IN [error |-> "",
             quantity |-> quantity,
             position_value |-> quantity * entry_price,
             risk_amount |-> quantity * risk_per_share,
             risk_percent |-> Percent(raw * risk_per_share, portfolio_value),
             position_percent |-> Percent(raw * entry_price, portfolio_value),
             capped |-> capped,
             cap_reason |-> IF capped THEN Some("MAX_POSITION_SIZE") ELSE None,
             entry_price |-> entry_price, stop_loss |-> stop_loss,
             portfolio_value |-> portfolio_value]
calculate_position_size(entry_price, stop_loss, portfolio_value) ==
    IF entry_price <= 0 \/ stop_loss <= 0 \/ stop_loss >= entry_price
    THEN [error |-> "ValueError"]
    ELSE LET risk_per_share == entry_price - stop_loss
             raw == RawQuantity(entry_price, stop_loss, portfolio_value)
             max_quantity_by_value == MaxQuantityByValue(entry_price, portfolio_value)
             capped == raw > max_quantity_by_value
             quantity0 == IF capped THEN max_quantity_by_value ELSE raw
             quantity == IF quantity0 < 1 THEN 1 ELSE quantity0
         IN [error |-> "",
             quantity |-> quantity,
             position_value |-> quantity * entry_price,
             risk_amount |-> quantity * risk_per_share,
             risk_percent |-> Percent(quantity * risk_per_share, portfolio_value),
             position_percent |-> Percent(quantity * entry_price, portfolio_value),
             capped |-> capped,
             cap_reason |-> IF capped THEN Some("MAX_POSITION_SIZE") ELSE None,
             entry_price |-> entry_price, stop_loss |-> stop_loss,
             portfolio_value |-> portfolio_value]

-----------------------------------------------------------------------------
(* RiskManager.  A check returns its ValidationResult together with the    *)
(* account values it fetched from the broker on the way.                   *)
Valid(fetched) == [is_valid |-> TRUE, reason |-> None, fetched |-> fetched]
Invalid(reason, fetched) == [is_valid |-> FALSE, reason |-> Some(reason), fetched |-> fetched]

RECURSIVE SumSeq(_)
SumSeq(s) == IF s = <<>> THEN 0 ELSE s[1] + SumSeq(Tail(s))

(* RiskManager._get_strategy_allocation *)
StrategyAllocation(strategy_id) ==
    SumSeq([i \in 1..Len(trades) |->
        IF trades[i].strategy_id = strategy_id /\ trades[i].status = "OPEN"
        THEN trades[i].entry_price * trades[i].quantity ELSE 0])

NoLossLimitCheck(strategy_id) == Valid(<<>>)
check_daily_loss_limit(strategy_id) ==
    IF strategy_id \notin DOMAIN strategies THEN Invalid("Strategy not found", <<>>)
    ELSE IF strategies[strategy_id].status = "paused" THEN Invalid("Strategy paused", <<>>)
    ELSE Valid(<<>>)

NoDuplicateCheck(strategy_id, symbol) == Valid(<<>>)
check_duplicate_position(strategy_id, symbol) ==
    IF symbol \notin Symbols THEN Invalid("Stock not found", <<>>)
    ELSE IF \E i \in 1..Len(trades) : /\ trades[i].strategy_id = strategy_id
                                      /\ trades[i].stock_id = symbol
                                      /\ trades[i].status = "OPEN"
    THEN Invalid("Duplicate position", <<>>)
    ELSE Valid(<<>>)

check_position_size_limit(position_value) ==
    IF ~connected \/ account.NetLiquidation = 0
    THEN Invalid("Position size check failed", IF connected THEN <<"NetLiquidation">> ELSE <<>>)
    ELSE IF position_value * 100 > MAX_POSITION_PERCENT * account.NetLiquidation
    THEN Invalid("Position size exceeds 20% limit", <<"NetLiquidation">>)
    ELSE Valid(<<"NetLiquidation">>)

check_sufficient_capital(position_value) ==
    IF ~connected THEN Invalid("Capital check failed", <<>>)
    ELSE IF position_value > account.BuyingPower
    THEN Invalid("Insufficient capital", <<"BuyingPower">>)
    ELSE Valid(<<"BuyingPower">>)

check_portfolio_allocation(strategy_id, new_position_value) ==
    IF ~connected \/ account.NetLiquidation = 0
    THEN Invalid("Portfolio allocation check failed",
                 IF connected THEN <<"NetLiquidation">> ELSE <<>>)
    ELSE IF (StrategyAllocation(strategy_id) + new_position_value) * 100
                > MAX_STRATEGY_ALLOCATION_PERCENT * account.NetLiquidation
    THEN Invalid("Strategy allocation exceeds 50% limit", <<"NetLiquidation">>)
    ELSE Valid(<<"NetLiquidation">>)

(* The list `checks` of validate_trade, in the order it is written *)
Checks(strategy_id, symbol, position_value) ==
    << [name |-> "Daily Loss Limit",    result |-> check_daily_loss_limit(strategy_id)],
       [name |-> "Duplicate Position",  result |-> check_duplicate_position(strategy_id, symbol)],
       [name |-> "Position Size Limit", result |-> check_position_size_limit(position_value)],
       [name |-> "Sufficient Capital",  result |-> check_sufficient_capital(position_value)],
       [name |-> "Portfolio Allocation",
        result |-> check_portfolio_allocation(strategy_id, position_value)] >>

(* Index of the first check of the list that failed, 0 when none did *)
FirstFailed(checks) ==
    IF \A i \in 1..Len(checks) : checks[i].result.is_valid THEN 0
    ELSE CHOOSE i \in 1..Len(checks) :
            /\ ~checks[i].result.is_valid
            /\ \A j \in 1..(i - 1) : checks[j].result.is_valid

(* The checks validate_trade has run by the time it returns: the list is   *)
(* built, every element evaluated, before the loop looks at any result.    *)
ExecutedUntilFailure(checks) ==
    IF FirstFailed(checks) = 0 THEN checks ELSE SubSeq(checks, 1, FirstFailed(checks))
ExecutedChecks(checks) == checks

RECURSIVE Fetched(_)
Fetched(checks) ==
    IF checks = <<>> THEN <<>> ELSE checks[1].result.fetched \o Fetched(Tail(checks))

AlwaysValid(strategy_id, symbol, position_value) ==
    [is_valid |-> TRUE, reason |-> None, failed |-> None, executed |-> <<>>, fetched |-> <<>>]
validate_trade(strategy_id, symbol, position_value) ==
    LET checks == Checks(strategy_id, symbol, position_value)
        executed == ExecutedChecks(checks)
        k == FirstFailed(executed)
    IN [is_valid |-> k = 0,
        reason |-> IF k = 0 THEN None ELSE executed[k].result.reason,
        failed |-> IF k = 0 THEN None ELSE Some(executed[k].name),
        executed |-> [i \in 1..Len(executed) |-> executed[i].name],
        fetched |-> Fetched(executed)]

-----------------------------------------------------------------------------
(* models/order.py: an Order row as the submit_* methods create it.        *)
(* broker_order_id holds the broker's orderId (the source stores it as a   *)
(* string and reads it back with int()).                                   *)
OrderRow(trade_id, stock_id, order_type, side, quantity, stop_price, limit_price, broker_order_id, submitted_at) ==
    [trade_id |-> trade_id, stock_id |-> stock_id, order_type |-> order_type,
     side |-> side, quantity |-> quantity,
     stop_price |-> stop_price, limit_price |-> limit_price, filled_price |-> None,
     status |-> "PENDING", broker_order_id |-> broker_order_id,
     submitted_at |-> submitted_at, filled_at |-> None]

(* ib.placeOrder: the broker's record of an order *)
placeOrder(symbol, action, orderType, totalQuantity, auxPrice, lmtPrice) ==
    [symbol |-> symbol, action |-> action, orderType |-> orderType,
     totalQuantity |-> totalQuantity, auxPrice |-> auxPrice, lmtPrice |-> lmtPrice,
     status |-> "Submitted", avgFillPrice |-> 0, filled |-> 0]

(* OrderService.submit_market_order / submit_stop_loss_order /            *)
(* submit_take_profit_order: the order placed at the broker and the row   *)
(* added to the orders table.                                              *)
submit_market_order(symbol, quantity, action, trade_id) ==
    [ib |-> placeOrder(symbol, action, "MKT", quantity, None, None),
     row |-> OrderRow(trade_id, symbol, "MARKET", action, quantity, None, None,
                      Len(ib_trades) + 1, now)]

submit_stop_loss_order(symbol, quantity, stop_price, trade_id) ==
    [ib |-> placeOrder(symbol, "SELL", "STP", quantity, Some(stop_price), None),
     row |-> OrderRow(trade_id, symbol, "STOP", "SELL", quantity, Some(stop_price), None,
                      Len(ib_trades) + 1, now)]

submit_take_profit_order(symbol, quantity, limit_price, trade_id) ==
    [ib |-> placeOrder(symbol, "SELL", "LMT", quantity, None, Some(limit_price)),
     row |-> OrderRow(trade_id, symbol, "LIMIT", "SELL", quantity, None, Some(limit_price),
                      Len(ib_trades) + 1, now)]

(* BaseStrategy.calculate_stop_loss_price / calculate_take_profit_price *)
calculate_stop_loss_price(entry_price) == (entry_price * (100 - stop_loss_pct)) \div 100
calculate_take_profit_price(entry_price) == (entry_price * (100 + take_profit_pct)) \div 100

(* ExecutionResult *)
ExecutionResult(success, trade, market_order, stop_loss_order, take_profit_order, error_message) ==
    [success |-> success, trade |-> trade, market_order |-> market_order,
     stop_loss_order |-> stop_loss_order, take_profit_order |-> take_profit_order,
     error_message |-> error_message]

Failure(market_order, error_message) ==
    ExecutionResult(FALSE, None, market_order, None, None, Some(error_message))

(* An execute_signal call: where it is and its local variables *)
NoCall ==
    [pc |-> "idle", signal |-> None, current_price |-> None,
     stop_loss_price |-> None, take_profit_price |-> None, quantity |-> None,
     market_order |-> None, elapsed |-> 0, fill_price |-> None, trade |-> None,
     stop_loss_order |-> None, result |-> None]

(* _wait_for_fill when the window is over: it logs and returns None; the   *)
(* orders table is as it was.                                              *)
CancelledAtTimeout(ords, o) == [ords EXCEPT ![o] = [@ EXCEPT !.status = "CANCELLED"]]
OrdersAtTimeout(ords, o) == ords

(* The trade a protective order is submitted for *)
Unlinked(trade_id) == None
ProtectedTrade(trade_id) == trade_id

(* The entry price execute_signal writes to the Trade row *)
EntryPriceFromReference(call, fill_price) == Val(call.current_price)
EntryPrice(call, fill_price) == fill_price

-----------------------------------------------------------------------------
(* What each part of the state is while a specification does not use it *)
IdleStrategies ==
    /\ strategies = [s \in StrategyIds |-> NewStrategy]
    /\ loss_run = [s \in StrategyIds |-> 0]
IdleTrading ==
    /\ trades = <<>> /\ orders = <<>> /\ ib_trades = <<>>
    /\ calls = <<>> /\ now = 0
IdleBroker == account = [NetLiquidation |-> 10000, BuyingPower |-> 10000] /\ connected = TRUE
IdleSizer == sizing = None
IdleRisk == validation = None
IdleRecon == broker_positions = <<>> /\ reconciliation = None
IdleRecovery ==
    system_state = None /\ recovery_events = <<>> /\ recovery_run = None /\ crash_check = None
IdleMonitor == sweeps = <<>>
IdleClient == connection = None

-----------------------------------------------------------------------------
(* The loss-limit guard and the strategy activation workflow *)

(* A Trade row force-closed by recover_missing_position *)
ForceClosed(t, exit_time) ==
    [t EXCEPT !.status = "CLOSED", !.exit_time = Some(exit_time),
              !.exit_price = Some(0), !.profit_loss = Some(0),
              !.recovered = TRUE, !.recovery_reason = Some("missing_at_broker")]

(* The trades the strategies have made so far: losses, wins, a            *)
(* force-closed trade and a trade still open.                              *)
LossTrades ==
    LET t(s, sym) == TradeRow(s, sym, 1, 100, 20, Some(95), Some(110), FALSE)
    IN << ClosedAt(t(1, "AAPL"), 2, 95),  ClosedAt(t(1, "AAPL"), 2, 110),
          ForceClosed(t(1, "MSFT"), 2),   t(1, "MSFT"),
          ClosedAt(t(2, "AAPL"), 2, 95),  ClosedAt(t(2, "AAPL"), 2, 100) >>

(* Bar counts of the watchlist as check_warm_up finds them *)
BarCounts == {99, 100, 250}
Watchlists == {<<>>} \cup {<<b>> : b \in BarCounts}
                    \cup {<<b, c>> : b \in BarCounts, c \in BarCounts}

LossRunBase(st) ==
    IF st.status = "active" /\ st.consecutive_losses_today = 0 THEN 0 ELSE -1

TrackTradeOutcome(trade_id) ==
    LET outcome == TrackOutcome(trade_id)
        sid == trades[trade_id].strategy_id
    IN /\ IF outcome \in {"loss", "win"}
          THEN /\ outcome = "loss" => strategies[sid].consecutive_losses_today < MaxLosses
               /\ strategies' = [strategies EXCEPT ![sid] = track_trade_outcome(@, outcome)]
               /\ loss_run' = [loss_run EXCEPT ![sid] =
                      IF outcome = "loss" /\ @ \in 0..2 THEN @ + 1
                      ELSE IF outcome = "win" /\ @ = 3 THEN 4
                      ELSE LossRunBase(strategies'[sid])]
          ELSE UNCHANGED strategyVars
       /\ UNCHANGED <<tradingVars, brokerVars, sizerVars, riskVars, reconVars, recoveryVars, monitorVars, clientVars>>

ResetDailyCounters ==
    /\ strategies' = reset_daily_counters(strategies)
    /\ loss_run' = [s \in StrategyIds |-> LossRunBase(strategies'[s])]
    /\ UNCHANGED <<tradingVars, brokerVars, sizerVars, riskVars, reconVars, recoveryVars, monitorVars, clientVars>>

StrategyStep(s, st) ==
    /\ strategies' = [strategies EXCEPT ![s] = st]
    /\ loss_run' = [loss_run EXCEPT ![s] = LossRunBase(st)]
    /\ UNCHANGED <<tradingVars, brokerVars, sizerVars, riskVars, reconVars, recoveryVars, monitorVars, clientVars>>

ActivateStrategy(s, bars) == StrategyStep(s, activate_strategy(strategies[s], bars))
CheckWarmUp(s, bars) == StrategyStep(s, check_warm_up(strategies[s], bars))
PauseStrategy(s) == StrategyStep(s, pause_strategy(strategies[s]))
SetErrorStatus(s) == StrategyStep(s, set_error_status(strategies[s]))

InitLoss ==
    /\ IdleStrategies
    /\ trades = LossTrades /\ orders = <<>> /\ ib_trades = <<>> /\ calls = <<>> /\ now = 2
    /\ IdleBroker /\ IdleSizer /\ IdleRisk /\ IdleRecon /\ IdleRecovery /\ IdleMonitor /\ IdleClient

NextLoss ==
    \/ \E trade_id \in 0..Len(trades) : TrackTradeOutcome(trade_id)
    \/ ResetDailyCounters
    \/ \E s \in StrategyIds, bars \in Watchlists : ActivateStrategy(s, bars)
    \/ \E s \in StrategyIds, bars \in Watchlists : CheckWarmUp(s, bars)
    \/ \E s \in StrategyIds : PauseStrategy(s)
    \/ \E s \in StrategyIds : SetErrorStatus(s)

SpecLoss == InitLoss /\ [][NextLoss]_vars

(* C1: a strategy whose consecutive_losses_today is >= 3 has status        *)
(* 'paused', in every state reachable through track_trade_outcome,         *)
(* reset_daily_counters and the activation workflow.                       *)
C1_LossLimitImpliesPaused ==
    \A s \in StrategyIds :
        strategies[s].consecutive_losses_today >= MAX_CONSECUTIVE_LOSSES
            => strategies[s].status = "paused"

(* C5: from an active strategy with counter 0, three tracked losses in a   *)
(* row give counter 3 and status 'paused'; one tracked non-loss after      *)
(* them gives counter 0 and leaves the status 'paused'.                    *)
C5_LossLimitScenario ==
    \A s \in StrategyIds :
        /\ loss_run[s] = 3 => /\ strategies[s].consecutive_losses_today = 3
                              /\ strategies[s].status = "paused"
        /\ loss_run[s] = 4 => /\ strategies[s].consecutive_losses_today = 0
                              /\ strategies[s].status = "paused"

C5_Witness == \E s \in StrategyIds : loss_run[s] = 4

-----------------------------------------------------------------------------
(* The position sizer on its own: every call with prices and portfolio     *)
(* values of the bounded sets.                                             *)
PortfolioValues == {50, 100, 500, 1000, 10000}

CalculatePositionSize(entry_price, stop_loss, portfolio_value) ==
    /\ sizing' = Some(calculate_position_size(entry_price, stop_loss, portfolio_value))
    /\ UNCHANGED <<strategyVars, tradingVars, brokerVars, riskVars, reconVars, recoveryVars, monitorVars, clientVars>>

InitSizer ==
    /\ IdleStrategies /\ IdleTrading /\ IdleBroker /\ IdleSizer
    /\ IdleRisk /\ IdleRecon /\ IdleRecovery /\ IdleMonitor /\ IdleClient

NextSizer ==
    \E entry_price \in 0..MaxPrice, stop_loss \in 0..MaxPrice,
       portfolio_value \in PortfolioValues :
        CalculatePositionSize(entry_price, stop_loss, portfolio_value)

SpecSizer == InitSizer /\ [][NextSizer]_vars

Sized == sizing # None /\ Val(sizing).error = ""

-----------------------------------------------------------------------------
(* The risk manager on its own: validate_trade in the states a strategy,   *)
(* its trades and the account can be in.                                   *)
RiskTrades ==
    LET t(s, sym, q) == TradeRow(s, sym, 1, 100, q, Some(95), Some(110), FALSE)
    IN { <<>>,
         << t(1, "AAPL", 20) >>,
         << t(1, "MSFT", 40) >>,
         << ClosedAt(t(1, "AAPL", 20), 2, 95), t(2, "AAPL", 20) >>,
         << t(1, "MSFT", 20), t(1, "AAPL", 10), t(2, "MSFT", 20) >> }

RiskAccounts ==
    { [NetLiquidation |-> 10000, BuyingPower |-> 10000],
      [NetLiquidation |-> 10000, BuyingPower |-> 500],
      [NetLiquidation |-> 2000,  BuyingPower |-> 4000] }

PositionValues == {100, 1000, 2000, 2500}

ValidateTrade(strategy_id, symbol, position_value) ==
    /\ validation' = Some([strategy_id |-> strategy_id, symbol |-> symbol,
                           position_value |-> position_value,
                           result |-> validate_trade(strategy_id, symbol, position_value)])
    /\ UNCHANGED <<strategyVars, tradingVars, brokerVars, sizerVars, reconVars, recoveryVars, monitorVars, clientVars>>

InitRisk ==
    /\ strategies \in [StrategyIds -> {[NewStrategy EXCEPT !.status = st] :
                                          st \in {"active", "paused", "warming", "error"}}]
    /\ loss_run = [s \in StrategyIds |-> -1]
    /\ trades \in RiskTrades
    /\ orders = <<>> /\ ib_trades = <<>> /\ calls = <<>> /\ now = 2
    /\ account \in RiskAccounts
    /\ connected \in BOOLEAN
    /\ IdleSizer /\ IdleRisk /\ IdleRecon /\ IdleRecovery /\ IdleMonitor /\ IdleClient

NextRisk ==
    \E strategy_id \in StrategyIds \cup {0}, symbol \in Symbols \cup {"ZZZZ"},
       position_value \in PositionValues :
        ValidateTrade(strategy_id, symbol, position_value)

SpecRisk == InitRisk /\ [][NextRisk]_vars

CheckOrder ==
    << "Daily Loss Limit", "Duplicate Position", "Position Size Limit",
       "Sufficient Capital", "Portfolio Allocation" >>

PositionOf(name) == CHOOSE i \in 1..Len(CheckOrder) : CheckOrder[i] = name

(* C4 as stated: the checks run in the fixed order and once one fails no   *)
(* later check is executed, so no later account value is fetched.          *)
C4_ShortCircuit ==
    validation # None =>
        LET r == Val(validation).result
        IN /\ \A i \in 1..Len(r.executed) : r.executed[i] = CheckOrder[i]
           /\ ~r.is_valid => Len(r.executed) = PositionOf(Val(r.failed))

(* C4 amended: validate_trade executes all five checks in the fixed order, *)
(* whatever their results, fetching the account values of the later       *)
(* checks too, and returns the result of the first check in that order     *)
(* that failed (valid when none failed).                                   *)
C4_AllChecksRunFirstFailureReturned ==
    validation # None =>
        LET v == Val(validation)
            r == v.result
            checks == Checks(v.strategy_id, v.symbol, v.position_value)
        IN /\ r.executed = CheckOrder
           /\ connected => r.fetched = <<"NetLiquidation", "BuyingPower", "NetLiquidation">>
           /\ r.is_valid <=> \A i \in 1..Len(checks) : checks[i].result.is_valid
           /\ ~r.is_valid =>
                 /\ ~checks[PositionOf(Val(r.failed))].result.is_valid
                 /\ r.reason = checks[PositionOf(Val(r.failed))].result.reason
                 /\ \A j \in 1..(PositionOf(Val(r.failed)) - 1) : checks[j].result.is_valid

(* a paused strategy rejected by the first check while connected *)
C4_Witness ==
    /\ validation # None
    /\ connected
    /\ Val(validation).result.failed = Some("Daily Loss Limit")

-----------------------------------------------------------------------------
(* The execution engine: execute_signal calls of concurrent callers, cut   *)
(* at the broker calls they block on, and the broker.                      *)
Callers == {1, 2}
SignalTypes == {"buy", "sell"}
Signals == [strategy_id : StrategyIds, symbol : Symbols, signal_type : SignalTypes]
RefPrices == {100}        \* prices the market data snapshot can show
FillPrices == {101}       \* average fill prices of a market order

Return(c, call, result) ==
    calls' = [calls EXCEPT ![c] = [call EXCEPT !.pc = "returned", !.result = Some(result)]]

(* execute_signal up to the submission of the market order: signal type,   *)
(* reference price, stop and target, position size, risk validation.       *)
(* price is what _get_current_price returns.                               *)
ExecBegin(c, signal, price) ==
    /\ calls[c].pc = "idle"
    /\ ~connected => price = None
    /\ LET call0 == [calls[c] EXCEPT !.signal = Some(signal)]
       IN IF signal.signal_type # "buy"
          THEN /\ Return(c, call0, Failure(None, "Signal type not supported for execution"))
               /\ UNCHANGED <<trades, orders, ib_trades, now>>
          ELSE IF price = None
          THEN /\ Return(c, call0, Failure(None, "Unable to get current price"))
               /\ UNCHANGED <<trades, orders, ib_trades, now>>
          ELSE LET current_price == Val(price)
                   stop_loss_price == calculate_stop_loss_price(current_price)
                   take_profit_price == calculate_take_profit_price(current_price)
                   position_size == calculate_position_size(
                                        current_price, stop_loss_price, account.NetLiquidation)
                   call1 == [call0 EXCEPT !.current_price = price,
                                          !.stop_loss_price = Some(stop_loss_price),
                                          !.take_profit_price = Some(take_profit_price)]
               IN IF position_size.error # ""
                  THEN /\ Return(c, call1, Failure(None, "Trade execution failed"))
                       /\ UNCHANGED <<trades, orders, ib_trades, now>>
                  ELSE LET v == validate_trade(signal.strategy_id, signal.symbol,
                                               position_size.position_value)
                           sub == submit_market_order(signal.symbol, position_size.quantity,
                                                      "BUY", None)
                       IN IF ~v.is_valid
                          THEN /\ Return(c, call1, Failure(None, "Risk validation failed: " \o Val(v.reason)))
                               /\ UNCHANGED <<trades, orders, ib_trades, now>>
                          ELSE /\ ib_trades' = Append(ib_trades, sub.ib)
                               /\ orders' = Append(orders, sub.row)
                               /\ now' = now + 1
                               /\ calls' = [calls EXCEPT ![c] =
                                      [call1 EXCEPT !.pc = "wait",
                                                    !.quantity = Some(position_size.quantity),
                                                    !.market_order = Some(Len(orders) + 1)]]
                               /\ UNCHANGED trades
    /\ UNCHANGED <<strategyVars, brokerVars, sizerVars, riskVars, reconVars, recoveryVars, monitorVars, clientVars>>

(* One round of _wait_for_fill's loop and, when the broker shows the order *)
(* Filled, the creation of the Trade; when the window is over, the return. *)
ExecPoll(c) ==
    LET call == calls[c]
        o == Val(call.market_order)
        ib == ib_trades[orders[o].broker_order_id]
        elapsed == call.elapsed + 1
    IN /\ call.pc = "wait"
       /\ call.elapsed < timeout_seconds
       /\ IF ib.status = "Filled"
          THEN LET fill_price == ib.avgFillPrice
                   trade == TradeRow(Val(call.signal).strategy_id, Val(call.signal).symbol,
                                     now, EntryPrice(call, fill_price), Val(call.quantity),
                                     call.stop_loss_price, call.take_profit_price, FALSE)
               IN /\ orders' = [orders EXCEPT ![o] =
                                   [@ EXCEPT !.status = "FILLED", !.filled_at = Some(now),
                                             !.filled_price = Some(fill_price),
                                             !.trade_id = Some(Len(trades) + 1)]]
                  /\ trades' = Append(trades, trade)
                  /\ now' = now + 1
                  /\ calls' = [calls EXCEPT ![c] =
                         [call EXCEPT !.pc = "stop", !.elapsed = elapsed,
                                      !.fill_price = Some(fill_price),
                                      !.trade = Some(Len(trades) + 1)]]
          ELSE /\ IF elapsed < timeout_seconds
                  THEN /\ calls' = [calls EXCEPT ![c] = [call EXCEPT !.elapsed = elapsed]]
                       /\ UNCHANGED orders
                  ELSE /\ Return(c, [call EXCEPT !.elapsed = elapsed],
                                 Failure(call.market_order,
                                         "Market order did not fill in expected time"))
                       /\ orders' = OrdersAtTimeout(orders, o)
               /\ UNCHANGED <<trades, now>>
       /\ UNCHANGED ib_trades
       /\ UNCHANGED <<strategyVars, brokerVars, sizerVars, riskVars, reconVars, recoveryVars, monitorVars, clientVars>>

(* A variant of the step below that undoes the entry when the stop-loss    *)
(* order cannot be submitted                                               *)
ExecSubmitStopLossUndoing(c) ==
    LET call == calls[c]
        sub == submit_stop_loss_order(Val(call.signal).symbol, Val(call.quantity),
                                      Val(call.stop_loss_price), ProtectedTrade(call.trade))
    IN /\ call.pc = "stop"
       /\ IF connected
          THEN /\ ib_trades' = Append(ib_trades, sub.ib)
               /\ orders' = Append(orders, sub.row)
               /\ now' = now + 1
               /\ calls' = [calls EXCEPT ![c] =
                      [call EXCEPT !.pc = "take_profit",
                                   !.stop_loss_order = Some(Len(orders) + 1)]]
               /\ UNCHANGED trades
          ELSE /\ Return(c, call, Failure(None, "Trade execution failed"))
               /\ trades' = [trades EXCEPT ![Val(call.trade)] = [@ EXCEPT !.status = "CANCELLED"]]
               /\ UNCHANGED <<orders, ib_trades, now>>
       /\ UNCHANGED <<strategyVars, brokerVars, sizerVars, riskVars, reconVars, recoveryVars, monitorVars, clientVars>>

(* submit_stop_loss_order for the new Trade; ConnectionError ends the call *)
ExecSubmitStopLoss(c) ==
    LET call == calls[c]
        sub == submit_stop_loss_order(Val(call.signal).symbol, Val(call.quantity),
                                      Val(call.stop_loss_price), ProtectedTrade(call.trade))
    IN /\ call.pc = "stop"
       /\ IF connected
          THEN /\ ib_trades' = Append(ib_trades, sub.ib)
               /\ orders' = Append(orders, sub.row)
               /\ now' = now + 1
               /\ calls' = [calls EXCEPT ![c] =
                      [call EXCEPT !.pc = "take_profit",
                                   !.stop_loss_order = Some(Len(orders) + 1)]]
          ELSE /\ Return(c, call, Failure(None, "Trade execution failed"))
               /\ UNCHANGED <<orders, ib_trades, now>>
       /\ UNCHANGED trades
       /\ UNCHANGED <<strategyVars, brokerVars, sizerVars, riskVars, reconVars, recoveryVars, monitorVars, clientVars>>

(* submit_take_profit_order and the successful return *)
ExecSubmitTakeProfit(c) ==
    LET call == calls[c]
        sub == submit_take_profit_order(Val(call.signal).symbol, Val(call.quantity),
                                        Val(call.take_profit_price), ProtectedTrade(call.trade))
    IN /\ call.pc = "take_profit"
       /\ IF connected
          THEN /\ ib_trades' = Append(ib_trades, sub.ib)
               /\ orders' = Append(orders, sub.row)
               /\ now' = now + 1
               /\ Return(c, call, ExecutionResult(TRUE, call.trade, call.market_order,
                                                  call.stop_loss_order,
                                                  Some(Len(orders) + 1), None))
          ELSE /\ Return(c, call, Failure(None, "Trade execution failed"))
               /\ UNCHANGED <<orders, ib_trades, now>>
       /\ UNCHANGED trades
       /\ UNCHANGED <<strategyVars, brokerVars, sizerVars, riskVars, reconVars, recoveryVars, monitorVars, clientVars>>

(* The broker fills an order: a market order at some price, a stop or a    *)
(* limit order at its own price.                                           *)
IbFill(b, price) ==
    /\ ib_trades[b].status = "Submitted"
    /\ ib_trades[b].orderType = "STP" => price = Val(ib_trades[b].auxPrice)
    /\ ib_trades[b].orderType = "LMT" => price = Val(ib_trades[b].lmtPrice)
    /\ ib_trades[b].orderType = "MKT" => price \in FillPrices
    /\ ib_trades' = [ib_trades EXCEPT ![b] =
           [@ EXCEPT !.status = "Filled", !.avgFillPrice = price,
                     !.filled = ib_trades[b].totalQuantity]]
    /\ UNCHANGED <<trades, orders, calls, now>>
    /\ UNCHANGED <<strategyVars, brokerVars, sizerVars, riskVars, reconVars, recoveryVars, monitorVars, clientVars>>

(* The connection to the broker drops and comes back *)
IbDisconnect ==
    /\ connected /\ connected' = FALSE /\ UNCHANGED account
    /\ UNCHANGED <<strategyVars, tradingVars, sizerVars, riskVars, reconVars, recoveryVars, monitorVars, clientVars>>

IbReconnect ==
    /\ ~connected /\ connected' = TRUE /\ UNCHANGED account
    /\ UNCHANGED <<strategyVars, tradingVars, sizerVars, riskVars, reconVars, recoveryVars, monitorVars, clientVars>>

AllPrices == FillPrices \cup {calculate_stop_loss_price(p) : p \in RefPrices}
                       \cup {calculate_take_profit_price(p) : p \in RefPrices}

InitExec ==
    /\ IdleStrategies
    /\ trades = <<>> /\ orders = <<>> /\ ib_trades = <<>> /\ now = 1
    /\ calls = [c \in Callers |-> NoCall]
    /\ IdleBroker /\ IdleSizer /\ IdleRisk /\ IdleRecon /\ IdleRecovery /\ IdleMonitor /\ IdleClient

NextExec ==
    \/ \E c \in Callers, signal \in Signals, price \in {None} \cup {Some(p) : p \in RefPrices} :
            ExecBegin(c, signal, price)
    \/ \E c \in Callers : ExecPoll(c)
    \/ \E c \in Callers : ExecSubmitStopLoss(c)
    \/ \E c \in Callers : ExecSubmitTakeProfit(c)
    \/ \E b \in 1..Len(ib_trades), price \in AllPrices : IbFill(b, price)
    \/ IbDisconnect
    \/ IbReconnect

SpecExec == InitExec /\ [][NextExec]_vars

OpenTrades(strategy_id, symbol) ==
    {i \in 1..Len(trades) : /\ trades[i].strategy_id = strategy_id
                            /\ trades[i].stock_id = symbol
                            /\ trades[i].status = "OPEN"}

(* C2: there is never more than one OPEN Trade for a (strategy,            *)
(* instrument) pair, under any interleaving of execute_signal calls.       *)
C2_OneOpenTradePerPair ==
    \A s \in StrategyIds, sym \in Symbols : Cardinality(OpenTrades(s, sym)) <= 1

(* C6: a Trade that execute_signal created has a market BUY order the      *)
(* broker reports Filled; its entry price is the broker's average fill     *)
(* price, not the reference price, and its quantity is the sized quantity. *)
C6_TradeOnlyAfterFill ==
    \A c \in Callers :
        calls[c].trade # None =>
            LET call == calls[c]
                t == trades[Val(call.trade)]
                o == orders[Val(call.market_order)]
                ib == ib_trades[o.broker_order_id]
            IN /\ o.order_type = "MARKET" /\ o.side = "BUY"
               /\ ib.orderType = "MKT" /\ ib.action = "BUY"
               /\ ib.status = "Filled"
               /\ o.filled_at # None /\ Val(o.filled_at) <= t.entry_time
               /\ t.entry_price = ib.avgFillPrice
               /\ t.quantity = calculate_position_size(
                                   Val(call.current_price), Val(call.stop_loss_price),
                                   account.NetLiquidation).quantity
               /\ t.quantity = ib.filled

C6_Witness ==
    \E c \in Callers :
        /\ calls[c].trade # None
        /\ trades[Val(calls[c].trade)].entry_price # Val(calls[c].current_price)

TimeoutMessage == "Market order did not fill in expected time"

(* C7: the fill wait lasts at most timeout_seconds polls; the step that    *)
(* ends it without a fill returns a failure result, leaves the Order       *)
(* PENDING, creates no Trade and sends nothing to the broker.              *)
C7_FillTimeout ==
    /\ [](\A c \in Callers : calls[c].pc = "wait" => calls[c].elapsed < timeout_seconds)
    /\ [][\A c \in Callers :
            (calls[c].pc = "wait" /\ calls'[c].pc = "returned") =>
                LET o == Val(calls[c].market_order)
                    result == Val(calls'[c].result)
                IN /\ calls'[c].elapsed = timeout_seconds
                   /\ ~result.success
                   /\ result.error_message = Some(TimeoutMessage)
                   /\ result.trade = None /\ calls'[c].trade = None
                   /\ orders'[o].status = "PENDING"
                   /\ orders'[o].trade_id = None
                   /\ trades' = trades
                   /\ ib_trades' = ib_trades]_vars

C7_Witness ==
    \E c \in Callers :
        /\ calls[c].pc = "returned"
        /\ calls[c].market_order # None
        /\ Val(calls[c].result).error_message = Some(TimeoutMessage)
        /\ orders[Val(calls[c].market_order)].status = "PENDING"

LinkedOrders(ords, trade_id) ==
    {i \in 1..Len(ords) : ords[i].trade_id = Some(trade_id)}

-----------------------------------------------------------------------------
(* Position reconciliation.  The broker reports a position as a float; it  *)
(* is modelled in half shares, and int() truncates it towards zero.        *)
int(half_shares) ==
    IF half_shares >= 0 THEN half_shares \div 2 ELSE -((-half_shares) \div 2)

(* The keys of a dict in insertion order: the first occurrences *)
RECURSIVE Keys(_)
Keys(s) ==
    IF s = <<>> THEN <<>>
    ELSE LET front == Keys(SubSeq(s, 1, Len(s) - 1))
             last == s[Len(s)]
         IN IF \E i \in 1..Len(front) : front[i] = last THEN front ELSE Append(front, last)

Range(s) == {s[i] : i \in 1..Len(s)}

(* PositionService.get_broker_positions: a later entry for a symbol        *)
(* overwrites an earlier one.                                              *)
get_broker_positions(positions) ==
    LET symbols == [i \in 1..Len(positions) |-> positions[i].symbol]
        Last(sym) == positions[CHOOSE i \in 1..Len(positions) :
                                  /\ positions[i].symbol = sym
                                  /\ \A j \in (i + 1)..Len(positions) : positions[j].symbol # sym]
    IN [keys |-> Keys(symbols),
        map |-> [sym \in Range(symbols) |->
                    [quantity |-> int(Last(sym).position),
                     avg_cost |-> Last(sym).avgCost,
                     market_value |-> (Last(sym).position * Last(sym).avgCost) \div 2]]]

(* PositionService.get_db_positions: the OPEN trades summed per symbol     *)
(* (avg_cost, which reconciliation does not read, is left out).            *)
get_db_positions(trs) ==
    LET open == SelectSeq([i \in 1..Len(trs) |-> [id |-> i, row |-> trs[i]]],
                          LAMBDA e : e.row.status = "OPEN")
        symbols == [i \in 1..Len(open) |-> open[i].row.stock_id]
        Of(sym) == SelectSeq(open, LAMBDA e : e.row.stock_id = sym)
    IN [keys |-> Keys(symbols),
        map |-> [sym \in Range(symbols) |->
                    [quantity |-> SumSeq([i \in 1..Len(Of(sym)) |-> Of(sym)[i].row.quantity]),
                     total_cost |-> SumSeq([i \in 1..Len(Of(sym)) |->
                                      Of(sym)[i].row.entry_price * Of(sym)[i].row.quantity]),
                     trade_ids |-> [i \in 1..Len(Of(sym)) |-> Of(sym)[i].id]]]]

PositionDiscrepancy(symbol, broker_quantity, db_quantity, value_difference, discrepancy_type) ==
    [symbol |-> symbol, broker_quantity |-> broker_quantity, db_quantity |-> db_quantity,
     value_difference |-> value_difference, discrepancy_type |-> discrepancy_type]

Abs(x) == IF x < 0 THEN -x ELSE x

(* reconcile_positions, first loop: the broker's positions against the     *)
(* database's, a symbol the database does not have counting as quantity 0  *)
RECURSIVE BrokerLoop(_, _, _)
BrokerLoop(keys, broker, db) ==
    IF keys = <<>> THEN <<>>
    ELSE LET symbol == keys[1]
             broker_data == broker.map[symbol]
             db_quantity == IF symbol \in DOMAIN db.map THEN db.map[symbol].quantity ELSE 0
             rest == BrokerLoop(Tail(keys), broker, db)
         IN IF db_quantity = 0
            THEN <<PositionDiscrepancy(symbol, broker_data.quantity, 0,
                                       broker_data.market_value, "EXTRA_AT_BROKER")>> \o rest
            ELSE IF db_quantity # broker_data.quantity
            THEN <<PositionDiscrepancy(symbol, broker_data.quantity, db_quantity,
                                       (broker_data.quantity - db_quantity) * broker_data.avg_cost,
                                       "QUANTITY_MISMATCH")>> \o rest
            ELSE rest

(* reconcile_positions, second loop: the database's positions the broker   *)
(* does not have                                                           *)
RECURSIVE DbLoop(_, _, _)
DbLoop(keys, broker, db) ==
    IF keys = <<>> THEN <<>>
    ELSE LET symbol == keys[1]
             rest == DbLoop(Tail(keys), broker, db)
         IN IF symbol \notin DOMAIN broker.map
            THEN <<PositionDiscrepancy(symbol, 0, db.map[symbol].quantity,
                                       db.map[symbol].total_cost, "MISSING_AT_BROKER")>> \o rest
            ELSE rest

reconcile_positions(positions, trs) ==
    LET broker == get_broker_positions(positions)
        db == get_db_positions(trs)
        discrepancies == BrokerLoop(broker.keys, broker, db) \o DbLoop(db.keys, broker, db)
    IN [broker_positions |-> broker.map, db_positions |-> db.map,
        discrepancies |-> discrepancies,
        total_value_diff |-> SumSeq([i \in 1..Len(discrepancies) |->
                                        Abs(discrepancies[i].value_difference)])]

(* The reconciliation specification: a trades table left by execute_signal *)
(* and a broker position list, reconciled and repaired.                    *)
TradeQuantities == {1, 2}
BrokerPositionSizes == {1, 4}        \* half shares: 0.5 and 2 shares

ReconTradeRows ==
    {TradeRow(1, sym, 1, 10, q, None, None, FALSE) : sym \in Symbols, q \in TradeQuantities}
        \cup {ClosedAt(TradeRow(2, sym, 1, 10, 1, None, None, FALSE), 1, 10) :
                 sym \in Symbols}

IbPositions == [symbol : Symbols, position : BrokerPositionSizes, avgCost : {10}]

SeqsUpTo(S, n) == UNION {[1..k -> S] : k \in 0..n}

(* reconcile_positions as a call: ConnectionError when the broker is away *)
(* The Trade table after reconcile_positions: it queries the OPEN trades    *)
(* and writes nothing                                                      *)
TradesForceClosed(positions, ts) == [t \in 1..Len(ts) |-> ForceClosed(ts[t], now)]
TradesAfterReconcile(positions, ts) == ts

Reconcile ==
    /\ reconciliation' =
           IF connected
           THEN Some([raised |-> None,
                      result |-> Some(reconcile_positions(broker_positions, trades))])
           ELSE Some([raised |-> Some("ConnectionError"), result |-> None])
    /\ trades' = IF connected THEN TradesAfterReconcile(broker_positions, trades) ELSE trades
    /\ UNCHANGED <<broker_positions, orders, ib_trades, calls, now>>
    /\ UNCHANGED <<strategyVars, brokerVars, sizerVars, riskVars, recoveryVars, monitorVars, clientVars>>

LastDiscrepancies ==
    IF reconciliation # None /\ Val(reconciliation).result # None
    THEN Val(Val(reconciliation).result).discrepancies ELSE <<>>

RecoveredTrades == {i \in 1..Len(trades) : trades[i].recovered /\ trades[i].status = "OPEN"}

(* recover_extra_position: a Trade for a position only the broker has *)
RecoverExtraPosition(i, strategy_id) ==
    LET d == LastDiscrepancies[i]
        broker == get_broker_positions(broker_positions)
    IN /\ d.discrepancy_type = "EXTRA_AT_BROKER"
       /\ connected
       /\ d.symbol \in DOMAIN broker.map
       /\ Cardinality(RecoveredTrades) < MaxRecovered
       /\ trades' = Append(trades, TradeRow(strategy_id, d.symbol, now,
                                            broker.map[d.symbol].avg_cost,
                                            d.broker_quantity, None, None, TRUE))
       /\ UNCHANGED <<orders, ib_trades, calls, now, reconVars>>
       /\ UNCHANGED <<strategyVars, brokerVars, sizerVars, riskVars, recoveryVars, monitorVars, clientVars>>

(* recover_missing_position: the OPEN trades of the symbol are closed *)
RecoverMissingPosition(i) ==
    LET d == LastDiscrepancies[i]
    IN /\ d.discrepancy_type = "MISSING_AT_BROKER"
       /\ trades' = [t \in 1..Len(trades) |->
                        IF trades[t].stock_id = d.symbol /\ trades[t].status = "OPEN"
                        THEN ForceClosed(trades[t], now) ELSE trades[t]]
       /\ UNCHANGED <<orders, ib_trades, calls, now, reconVars>>
       /\ UNCHANGED <<strategyVars, brokerVars, sizerVars, riskVars, recoveryVars, monitorVars, clientVars>>

InitRecon ==
    /\ IdleStrategies
    /\ trades \in SeqsUpTo(ReconTradeRows, MaxTrades)
    /\ orders = <<>> /\ ib_trades = <<>> /\ calls = <<>> /\ now = 2
    /\ IdleBroker /\ IdleSizer /\ IdleRisk
    /\ broker_positions \in SeqsUpTo(IbPositions, MaxPositions)
    /\ reconciliation = None
    /\ IdleRecovery /\ IdleMonitor /\ IdleClient

NextRecon ==
    \/ Reconcile
    \/ \E i \in 1..Len(LastDiscrepancies), s \in StrategyIds : RecoverExtraPosition(i, s)
    \/ \E i \in 1..Len(LastDiscrepancies) : RecoverMissingPosition(i)
    \/ IbDisconnect
    \/ IbReconnect

SpecRecon == InitRecon /\ [][NextRecon]_vars

DiscrepanciesFor(r, sym) ==
    {i \in 1..Len(r.discrepancies) : r.discrepancies[i].symbol = sym}

OnlyDiscrepancy(r, sym, discrepancy_type) ==
    /\ Cardinality(DiscrepanciesFor(r, sym)) = 1
    /\ \A i \in DiscrepanciesFor(r, sym) :
           r.discrepancies[i].discrepancy_type = discrepancy_type

(* C9: reconcile_positions returns exactly one discrepancy for a symbol in *)
(* exactly one of the two maps (EXTRA_AT_BROKER, MISSING_AT_BROKER), one   *)
(* QUANTITY_MISMATCH for a symbol in both with different quantities, and   *)
(* none for a symbol with equal quantities in both.                        *)
C9_ReconciliationComplete ==
    (reconciliation # None /\ Val(reconciliation).result # None) =>
        LET r == Val(Val(reconciliation).result)
        IN \A sym \in Symbols :
              LET at_broker == sym \in DOMAIN r.broker_positions
                  in_db == sym \in DOMAIN r.db_positions
              IN /\ (at_broker /\ ~in_db) => OnlyDiscrepancy(r, sym, "EXTRA_AT_BROKER")
                 /\ (~at_broker /\ in_db) => OnlyDiscrepancy(r, sym, "MISSING_AT_BROKER")
                 /\ (at_broker /\ in_db
                        /\ r.broker_positions[sym].quantity # r.db_positions[sym].quantity)
                       => OnlyDiscrepancy(r, sym, "QUANTITY_MISMATCH")
                 /\ (at_broker /\ in_db
                        /\ r.broker_positions[sym].quantity = r.db_positions[sym].quantity)
                       => DiscrepanciesFor(r, sym) = {}
                 /\ (~at_broker /\ ~in_db) => DiscrepanciesFor(r, sym) = {}

-----------------------------------------------------------------------------
(* Crash recovery *)
RecoveryEvent(timestamp, success, message, discrepancies_found, actions_taken) ==
    [recovery_type |-> "STARTUP", timestamp |-> timestamp, success |-> success,
     message |-> message, discrepancies_found |-> discrepancies_found,
     actions_taken |-> actions_taken]

StoppedState(last_updated) == [last_updated |-> last_updated, system_status |-> "STOPPED"]
SystemState(last_updated) == [last_updated |-> last_updated, system_status |-> "RUNNING"]

(* How run_recovery hands a failure to its caller *)
Reraised(message) == [outcome |-> "raised", success |-> FALSE, message |-> message]
RecoveryFailed(message) == [outcome |-> "returned", success |-> FALSE, message |-> message]

RecoveryCompleted ==
    [outcome |-> "returned", success |-> TRUE, message |-> "Recovery completed successfully"]

(* run_recovery, step 2: position reconciliation inside its own try.  The  *)
(* discrepancies are PositionDiscrepancy objects, and the report that      *)
(* subscripts them raises as soon as there is one; the handler records the *)
(* failure and the run goes on with the discrepancies already assigned.    *)
ReconciliationStep(has_client) ==
    IF ~has_client
    THEN [failed |-> FALSE, discrepancies |-> <<>>,
          action |-> "Position reconciliation skipped - IBKR client not available"]
    ELSE IF ~connected
    THEN [failed |-> TRUE, discrepancies |-> <<>>, action |-> "Position reconciliation failed"]
    ELSE LET r == reconcile_positions(broker_positions, trades)
         IN IF r.discrepancies # <<>>
            THEN [failed |-> TRUE, discrepancies |-> r.discrepancies,
                  action |-> "Position reconciliation failed"]
            ELSE [failed |-> FALSE, discrepancies |-> <<>>,
                  action |-> "Position reconciliation successful - no discrepancies"]

(* run_recovery's except branch: the failed RecoveryEvent is written       *)
(* inside try/except-pass, then the failure is handed to the caller.       *)
RecoveryExcept(fault, state, recon_failed, actions_taken, failure_event_ok) ==
    LET actions == Append(actions_taken, "Recovery failed")
        event == RecoveryEvent(now, FALSE, "Recovery failed", 0, actions)
    IN [system_state |-> state,
        recovery_events |-> IF failure_event_ok THEN Append(recovery_events, event)
                            ELSE recovery_events,
        run |-> [result |-> RecoveryFailed("Recovery failed"), fault |-> fault,
                 reconciliation_failed |-> recon_failed,
                 event |-> IF failure_event_ok THEN Some(Len(recovery_events) + 1) ELSE None,
                 orphaned_trades |-> <<>>]]

(* The attributes of a Trade object: the columns of models/trade.py and of *)
(* BaseModel                                                               *)
TradeAttributes ==
    {"id", "created_at", "updated_at", "strategy_id", "stock_id", "entry_time", "entry_price",
     "quantity", "exit_time", "exit_price", "profit_loss", "profit_loss_percent",
     "stop_loss", "take_profit", "trade_type", "status", "market_context",
     "strategy", "stock"}

orphan_window_hours == 24

(* _check_orphaned_trades at time t: the Trades of the last 24 hours (a    *)
(* Trade is created at its entry_time) without an order_id.  Reading an    *)
(* attribute a Trade does not have raises AttributeError, which the        *)
(* function's handler turns into an empty list.                            *)
check_orphaned_trades(trs, t) ==
    LET recent_trades == SelectSeq([i \in 1..Len(trs) |-> i],
                                   LAMBDA i : trs[i].entry_time >= t - orphan_window_hours)
    IN IF recent_trades = <<>> THEN <<>>
       ELSE IF "order_id" \notin TradeAttributes THEN <<>>
       ELSE SelectSeq(recent_trades, LAMBDA i : trs[i].order_id = None)

(* RecoveryService.run_recovery.  fault is the database operation that     *)
(* raises, if one does: the load of the last state, the commit of the      *)
(* RUNNING state or the commit of the success event.                       *)
run_recovery(has_client, fault, failure_event_ok) ==
    IF fault = "load_state"
    THEN RecoveryExcept(fault, system_state, FALSE, <<>>, failure_event_ok)
    ELSE LET recon == ReconciliationStep(has_client)
             actions2 == <<recon.action>>
             orphaned_trades == check_orphaned_trades(trades, now)
             actions3 == IF orphaned_trades # <<>>
                         THEN Append(actions2, "Found orphaned trades") ELSE actions2
         IN IF fault = "update_state"
            THEN RecoveryExcept(fault, system_state, recon.failed, actions3, failure_event_ok)
            ELSE LET running == Some(SystemState(now))
                     actions4 == Append(actions3, "Updated system state to RUNNING")
                 IN IF fault = "log_event"
                    THEN RecoveryExcept(fault, running, recon.failed, actions4,
                                        failure_event_ok)
                    ELSE [system_state |-> running,
                          recovery_events |->
                              Append(recovery_events,
                                     RecoveryEvent(now, TRUE, "Recovery completed successfully",
                                                   Len(recon.discrepancies), actions4)),
                          run |-> [result |-> RecoveryCompleted, fault |-> fault,
                                   reconciliation_failed |-> recon.failed,
                                   event |-> Some(Len(recovery_events) + 1),
                                   orphaned_trades |-> orphaned_trades]]

Faults == {"none", "load_state", "update_state", "log_event"}

RunRecovery(has_client, fault, failure_event_ok) ==
    LET r == run_recovery(has_client, fault, failure_event_ok)
    IN /\ Len(recovery_events) < MaxEvents
       /\ fault = "none" => failure_event_ok
       /\ system_state' = r.system_state
       /\ recovery_events' = r.recovery_events
       /\ recovery_run' = Some(r.run)
       /\ trades' = IF has_client /\ connected /\ fault # "load_state"
                    THEN TradesAfterReconcile(broker_positions, trades) ELSE trades
       /\ UNCHANGED <<orders, ib_trades, calls, now, crash_check>>
       /\ UNCHANGED <<strategyVars, brokerVars, sizerVars, riskVars, reconVars, monitorVars, clientVars>>

(* RecoveryService.update_heartbeat *)
UpdateHeartbeat ==
    /\ system_state' = IF system_state = None THEN Some(SystemState(now))
                       ELSE Some([Val(system_state) EXCEPT !.last_updated = now])
    /\ UNCHANGED <<recovery_events, recovery_run, crash_check>>
    /\ UNCHANGED <<strategyVars, tradingVars, brokerVars, sizerVars, riskVars, reconVars, monitorVars, clientVars>>

Tick ==
    /\ now < MaxNow
    /\ now' = now + 1
    /\ UNCHANGED <<trades, orders, ib_trades, calls>>
    /\ UNCHANGED <<strategyVars, brokerVars, sizerVars, riskVars, reconVars, recoveryVars, monitorVars, clientVars>>

InitRecovery ==
    /\ IdleStrategies
    /\ trades \in SeqsUpTo({TradeRow(1, "AAPL", 1, 10, 2, None, None, FALSE)}, 1)
    /\ orders = <<>> /\ ib_trades = <<>> /\ calls = <<>> /\ now = 1
    /\ IdleBroker /\ IdleSizer /\ IdleRisk
    /\ broker_positions \in SeqsUpTo({p \in IbPositions : p.symbol = "AAPL"}, 1)
    /\ reconciliation = None
    /\ IdleRecovery /\ IdleMonitor /\ IdleClient

NextRecovery ==
    \/ \E has_client \in BOOLEAN, fault \in Faults, failure_event_ok \in BOOLEAN :
            RunRecovery(has_client, fault, failure_event_ok)
    \/ UpdateHeartbeat
    \/ Tick
    \/ IbDisconnect
    \/ IbReconnect

SpecRecovery == InitRecovery /\ [][NextRecovery]_vars

RunFailed(run) == run.fault # "none" \/ run.reconciliation_failed

(* C10 as stated: when a step of run_recovery fails, position              *)
(* reconciliation included, a RecoveryEvent with success = false is        *)
(* persisted and the exception is re-raised to the caller.                 *)
C10_FailureEventThenReraise ==
    recovery_run # None =>
        LET run == Val(recovery_run)
        IN RunFailed(run) =>
              /\ run.result.outcome = "raised"
              /\ run.event # None
              /\ ~recovery_events[Val(run.event)].success

(* C10, amended: run_recovery never raises.  When the load of the state or *)
(* a commit fails it returns (False, "Recovery failed") and the            *)
(* RecoveryEvent it persists, unless that write fails too, has success =   *)
(* false; a failure of position reconciliation alone is recorded in        *)
(* actions_taken and the run completes with a success = true event.        *)
C10_FailureReturnedNotRaised ==
    recovery_run # None =>
        LET run == Val(recovery_run)
        IN /\ run.result.outcome = "returned"
           /\ run.fault # "none" =>
                 /\ ~run.result.success
                 /\ run.result.message = "Recovery failed"
                 /\ run.event # None =>
                       /\ ~recovery_events[Val(run.event)].success
                       /\ recovery_events[Val(run.event)].discrepancies_found = 0
           /\ (run.fault = "none" /\ run.reconciliation_failed) =>
                 /\ run.result.success
                 /\ run.event # None
                 /\ recovery_events[Val(run.event)].success
                 /\ \E i \in 1..Len(recovery_events[Val(run.event)].actions_taken) :
                        recovery_events[Val(run.event)].actions_taken[i]
                            = "Position reconciliation failed"

C10_Witness ==
    /\ recovery_run # None
    /\ Val(recovery_run).fault # "none"
    /\ Val(recovery_run).event # None
    /\ \E i \in 1..Len(recovery_events) :
           recovery_events[i].success /\ \E j \in 1..Len(recovery_events[i].actions_taken) :
               recovery_events[i].actions_taken[j] = "Position reconciliation failed"

-----------------------------------------------------------------------------
(* Order tracking: OrderService.update_order_status and the sweep          *)
(* monitor_orders, next to an execute_signal call waiting for its fill.    *)
CancelCodes == {"Cancelled", "ApiCancelled", "Inactive"}
BrokerStatuses == {"PendingSubmit", "Submitted", "Filled"} \cup CancelCodes

(* update_order_status, the if/elif chain on the broker's status: the      *)
(* local status it assigns to an Order whose status is `current`           *)
CancelOnAnyOther(order_status, current) ==
    IF order_status = "Filled" THEN "FILLED" ELSE "CANCELLED"
MappedStatus(order_status, current) ==
    IF order_status = "Filled" THEN "FILLED"
    ELSE IF order_status = "Cancelled" THEN "CANCELLED"
    ELSE IF order_status \in {"ApiCancelled", "Inactive"} THEN "CANCELLED"
    ELSE IF order_status = "Submitted" THEN "PENDING"
    ELSE current

(* The attributes update_order_status sets on the Order it loaded *)
StatusOnly(loaded, order_status, avgFillPrice, t) ==
    [loaded EXCEPT !.status = MappedStatus(order_status, loaded.status)]
UpdatedOrder(loaded, order_status, avgFillPrice, t) ==
    LET row == [loaded EXCEPT !.status = MappedStatus(order_status, loaded.status)]
    IN IF order_status = "Filled"
       THEN [row EXCEPT !.filled_at = Some(t), !.filled_price = Some(avgFillPrice)]
       ELSE row

(* db.commit(): the session writes the attributes whose value differs from *)
(* the one it loaded; the others keep what the table holds.                *)
Commit(row, loaded, updated) ==
    [f \in DOMAIN row |-> IF updated[f] # loaded[f] THEN updated[f] ELSE row[f]]

SweepIds == {1, 2}      \* update_order_status calls in progress at a time

(* update_order_status up to the read of the broker's status (the Order    *)
(* row is loaded, the broker's trade is looked up)                         *)
SweepRead(k, o) ==
    /\ sweeps[k] = None
    /\ sweeps' = [sweeps EXCEPT ![k] =
           Some([order |-> o, loaded |-> orders[o],
                 order_status |-> ib_trades[orders[o].broker_order_id].status,
                 avgFillPrice |-> ib_trades[orders[o].broker_order_id].avgFillPrice])]
    /\ UNCHANGED <<strategyVars, tradingVars, brokerVars, sizerVars, riskVars, reconVars,
                   recoveryVars, clientVars>>

(* update_order_status from there: the status is mapped and committed *)
SweepWrite(k) ==
    /\ sweeps[k] # None
    /\ LET sw == Val(sweeps[k])
       IN orders' = [orders EXCEPT ![sw.order] =
              Commit(@, sw.loaded,
                     UpdatedOrder(sw.loaded, sw.order_status, sw.avgFillPrice, now))]
    /\ sweeps' = [sweeps EXCEPT ![k] = None]
    /\ UNCHANGED <<trades, ib_trades, calls, now>>
    /\ UNCHANGED <<strategyVars, brokerVars, sizerVars, riskVars, reconVars,
                   recoveryVars, clientVars>>

(* The broker moves an order along: acknowledged, cancelled or set         *)
(* inactive, and an inactive order taken up again                          *)
IbStatus(b, status) ==
    /\ \/ ib_trades[b].status = "PendingSubmit" /\ status = "Submitted"
       \/ ib_trades[b].status = "Submitted" /\ status \in CancelCodes
       \/ ib_trades[b].status = "Inactive" /\ status = "Submitted"
    /\ ib_trades' = [ib_trades EXCEPT ![b] = [@ EXCEPT !.status = status]]
    /\ UNCHANGED <<trades, orders, calls, now>>
    /\ UNCHANGED <<strategyVars, brokerVars, sizerVars, riskVars, reconVars,
                   recoveryVars, monitorVars, clientVars>>

(* An execute_signal call of caller 1 that has just placed its market      *)
(* order and waits for the fill                                            *)
InitOrders ==
    /\ IdleStrategies
    /\ trades = <<>>
    /\ orders = <<OrderRow(None, "AAPL", "MARKET", "BUY", 20, None, None, 1, 1)>>
    /\ ib_trades = <<[placeOrder("AAPL", "BUY", "MKT", 20, None, None)
                        EXCEPT !.status = "PendingSubmit"]>>
    /\ calls = [c \in Callers |->
                  IF c = 1
                  THEN [NoCall EXCEPT
                          !.pc = "wait",
                          !.signal = Some([strategy_id |-> 1, symbol |-> "AAPL",
                                           signal_type |-> "buy"]),
                          !.current_price = Some(100),
                          !.stop_loss_price = Some(calculate_stop_loss_price(100)),
                          !.take_profit_price = Some(calculate_take_profit_price(100)),
                          !.quantity = Some(20), !.market_order = Some(1)]
                  ELSE NoCall]
    /\ now = 2
    /\ IdleBroker /\ IdleSizer /\ IdleRisk /\ IdleRecon /\ IdleRecovery /\ IdleClient
    /\ sweeps = [k \in SweepIds |-> None]

NextOrders ==
    \/ \E k \in SweepIds, o \in 1..Len(orders) : SweepRead(k, o)
    \/ \E k \in SweepIds : SweepWrite(k)
    \/ \E c \in Callers : ExecPoll(c)
    \/ \E c \in Callers : ExecSubmitStopLoss(c)
    \/ \E b \in 1..Len(ib_trades), status \in BrokerStatuses : IbStatus(b, status)
    \/ \E b \in 1..Len(ib_trades), price \in AllPrices : IbFill(b, price)

SpecOrders == InitOrders /\ [][NextOrders]_vars

(* A step in which the update_order_status call k commits *)
SweepWritten(k) == sweeps[k] # None /\ sweeps'[k] = None

(* A step that sets Order o to FILLED or CANCELLED is the commit of a poll *)
(* of the broker: an update_order_status call on o, or _wait_for_fill      *)
(* seeing the broker's 'Filled'                                            *)
OnlyByPolledStatus ==
    \A o \in 1..Len(orders) :
        (orders'[o].status \in {"FILLED", "CANCELLED"} /\ orders'[o].status # orders[o].status)
        => \/ \E k \in SweepIds : SweepWritten(k) /\ Val(sweeps[k]).order = o
           \/ /\ orders'[o].status = "FILLED"
              /\ ib_trades[orders[o].broker_order_id].status = "Filled"

FillApplied(o) ==
    /\ orders[o].status = "FILLED"
    /\ orders[o].filled_price = Some(ib_trades[orders[o].broker_order_id].avgFillPrice)

(* The same of the state a step leads to *)
FillAppliedAfter(o) ==
    /\ orders'[o].status = "FILLED"
    /\ orders'[o].filled_price = Some(ib_trades'[orders'[o].broker_order_id].avgFillPrice)

(* C12: a broker 'Filled' applied to an Order by update_order_status, by   *)
(* the fill poll of execute_signal, or by both in any order, leaves the    *)
(* Order FILLED with filled_price the broker's average fill price: the     *)
(* poll always, update_order_status whenever the Order still has the       *)
(* status the call loaded or has had the fill applied meanwhile; a second  *)
(* application finds the Order so and leaves it so.                        *)
C12_FilledIdempotent ==
    [][/\ \A k \in SweepIds :
            (/\ SweepWritten(k)
             /\ Val(sweeps[k]).order_status = "Filled"
             /\ \/ orders[Val(sweeps[k]).order].status = Val(sweeps[k]).loaded.status
                \/ FillApplied(Val(sweeps[k]).order))
            => FillAppliedAfter(Val(sweeps[k]).order)
       /\ \A c \in Callers :
            (calls[c].pc = "wait" /\ calls'[c].pc = "stop")
            => FillAppliedAfter(Val(calls[c].market_order))]_vars

(* The market order was filled by the poll (it carries the Trade) and      *)
(* again, later, by update_order_status (filled_at is after the entry)     *)
C12_Witness ==
    /\ orders[1].trade_id # None
    /\ FillApplied(1)
    /\ orders[1].filled_at # Some(trades[Val(orders[1].trade_id)].entry_time)


-----------------------------------------------------------------------------
(* execute_signal called again for a signal it has executed                *)

(* The step in which caller c's execute_signal call begins *)
Began(c) == calls[c].pc = "idle" /\ calls'[c].pc # "idle"

(* The checks of validate_trade other than the duplicate check pass for    *)
(* the position caller c's call has sized                                  *)
OtherChecksPass(c) ==
    LET call == calls'[c]
        signal == Val(call.signal)
        position_size == calculate_position_size(Val(call.current_price),
                             Val(call.stop_loss_price), account.NetLiquidation)
        checks == Checks(signal.strategy_id, signal.symbol, position_size.position_value)
    IN /\ position_size.error = ""
       /\ \A i \in 1..Len(checks) :
             checks[i].name # "Duplicate Position" => checks[i].result.is_valid

(* Caller c begins a call for the BUY signal that caller d's call, which   *)
(* has returned success, executed; the price is there, the capital too     *)
SecondCall(c, d) ==
    /\ c # d
    /\ Began(c)
    /\ calls[d].pc = "returned" /\ Val(calls[d].result).success
    /\ calls'[c].signal = calls[d].signal
    /\ calls'[c].current_price # None
    /\ OtherChecksPass(c)

(* C13 as stated: the second of two execute_signal calls in sequence for   *)
(* the same BUY signal goes on to its own market order, and so to a second *)
(* Trade.                                                                  *)
C13_SecondCallTradesAgain ==
    [][\A c, d \in Callers : SecondCall(c, d) => calls'[c].pc = "wait"]_vars

(* C13 amended: while the Trade of the first call is OPEN, the second call *)
(* is rejected by the duplicate-position check: it returns a failure with  *)
(* that reason, places no order and creates no Trade.                      *)
C13_SecondCallRejected ==
    [][\A c, d \in Callers :
          (SecondCall(c, d) /\ trades[Val(calls[d].trade)].status = "OPEN")
          => /\ calls'[c].pc = "returned"
             /\ calls'[c].result =
                    Some(Failure(None, "Risk validation failed: Duplicate position"))
             /\ UNCHANGED <<trades, orders, ib_trades>>]_vars

(* One call has returned success, the other the duplicate rejection, for   *)
(* the same signal                                                         *)
C13_Witness ==
    \E c, d \in Callers :
        /\ calls[d].pc = "returned" /\ Val(calls[d].result).success
        /\ calls[c].pc = "returned" /\ calls[c].signal = calls[d].signal
        /\ calls[c].result =
               Some(Failure(None, "Risk validation failed: Duplicate position"))
        /\ Cardinality(OpenTrades(Val(calls[d].signal).strategy_id,
                                  Val(calls[d].signal).symbol)) = 1


-----------------------------------------------------------------------------
(* validate_trade for a pair that has an OPEN Trade                        *)

(* The validation was asked for a strategy and symbol with an OPEN Trade *)
HasOpenTrade(v) ==
    \E i \in 1..Len(trades) : /\ trades[i].strategy_id = v.strategy_id
                              /\ trades[i].stock_id = v.symbol
                              /\ trades[i].status = "OPEN"

(* C14 as stated: with an OPEN Trade for the strategy and symbol,          *)
(* validate_trade rejects and the reason names the duplicate position,     *)
(* whatever the position size and the state of strategy and account.       *)
C14_DuplicateAlwaysNamed ==
    (validation # None /\ HasOpenTrade(Val(validation))) =>
        LET r == Val(validation).result
        IN ~r.is_valid /\ r.reason = Some("Duplicate position")

(* C14 amended: with an OPEN Trade for the strategy and symbol,            *)
(* validate_trade rejects whatever the position size and the state of      *)
(* strategy and account; the reason names the duplicate position unless    *)
(* the strategy is paused, and then it is that of the daily loss limit     *)
(* check, which comes first.                                               *)
C14_DuplicateNamedUnlessPaused ==
    (validation # None /\ HasOpenTrade(Val(validation))) =>
        LET v == Val(validation)
            r == v.result
        IN /\ ~r.is_valid
           /\ r.reason = IF strategies[v.strategy_id].status = "paused"
                         THEN Some("Strategy paused")
                         ELSE Some("Duplicate position")

(* a duplicate asked for a paused strategy, and one for a strategy that is *)
(* not paused with the account short of buying power                       *)
C14_Witness ==
    /\ validation # None
    /\ HasOpenTrade(Val(validation))
    /\ \/ strategies[Val(validation).strategy_id].status = "paused"
       \/ /\ Val(validation).result.reason = Some("Duplicate position")
          /\ Val(validation).position_value > account.BuyingPower


-----------------------------------------------------------------------------
(* execute_signal before the market order                                  *)

(* The five checks of validate_trade for the position the call of caller c *)
(* sizes from the price it read, in the state the call begins in           *)
ChecksAtBegin(c) ==
    LET call == calls'[c]
        signal == Val(call.signal)
        position_size == calculate_position_size(Val(call.current_price),
                             Val(call.stop_loss_price), account.NetLiquidation)
    IN Checks(signal.strategy_id, signal.symbol, position_size.position_value)

SizedAtBegin(c) ==
    /\ calls'[c].current_price # None
    /\ calculate_position_size(Val(calls'[c].current_price), Val(calls'[c].stop_loss_price),
                               account.NetLiquidation).error = ""

RecordsAdded ==
    \/ Len(orders') > Len(orders)
    \/ Len(ib_trades') > Len(ib_trades)
    \/ Len(trades') > Len(trades)

(* C15: the step that begins an execute_signal call places a broker order  *)
(* and writes an Order only for a BUY signal whose position was sized and  *)
(* passed every risk check; a signal that is not BUY and a risk rejection  *)
(* return a failure with the rejecting reason and leave orders, trades and *)
(* the broker's orders as they were; records are added only by calls that  *)
(* got past that step.                                                     *)
C15_NothingBeforeValidation ==
    [][/\ \A c \in Callers :
            Began(c) =>
               LET signal == Val(calls'[c].signal)
               IN /\ RecordsAdded =>
                        /\ signal.signal_type = "buy"
                        /\ SizedAtBegin(c)
                        /\ FirstFailed(ChecksAtBegin(c)) = 0
                  /\ signal.signal_type # "buy" =>
                        /\ calls'[c].pc = "returned"
                        /\ calls'[c].result =
                               Some(Failure(None, "Signal type not supported for execution"))
                        /\ UNCHANGED <<trades, orders, ib_trades>>
                  /\ (/\ signal.signal_type = "buy"
                      /\ SizedAtBegin(c)
                      /\ FirstFailed(ChecksAtBegin(c)) # 0) =>
                        /\ calls'[c].pc = "returned"
                        /\ calls'[c].result =
                               Some(Failure(None, "Risk validation failed: " \o
                                   Val(ChecksAtBegin(c)[FirstFailed(ChecksAtBegin(c))].result.reason)))
                        /\ UNCHANGED <<trades, orders, ib_trades>>
       /\ RecordsAdded =>
             \E c \in Callers : /\ calls'[c].pc \in {"wait", "stop", "take_profit", "returned"}
                                /\ calls'[c].market_order # None
                                /\ Val(calls'[c].signal).signal_type = "buy"]_vars

(* a BUY rejected by the risk checks next to the one market order, Order   *)
(* and Trade of the call before it                                         *)
C15_Witness ==
    \E c \in Callers :
        /\ calls[c].pc = "returned"
        /\ Val(calls[c].signal).signal_type = "buy"
        /\ ~Val(calls[c].result).success
        /\ calls[c].current_price # None /\ calls[c].market_order = None
        /\ Len(orders) = 1 /\ Len(ib_trades) = 1 /\ Len(trades) = 1


-----------------------------------------------------------------------------
(* Recovery next to the repairs an operator asks for: reconcile_positions, *)
(* run_recovery, recover_extra_position and recover_missing_position       *)
NextRepair ==
    \/ Reconcile
    \/ \E has_client \in BOOLEAN, fault \in Faults, failure_event_ok \in BOOLEAN :
            RunRecovery(has_client, fault, failure_event_ok)
    \/ \E i \in 1..Len(LastDiscrepancies), s \in StrategyIds : RecoverExtraPosition(i, s)
    \/ \E i \in 1..Len(LastDiscrepancies) : RecoverMissingPosition(i)
    \/ IbDisconnect
    \/ IbReconnect

SpecRepair == InitRecovery /\ [][NextRepair]_vars

(* C16: a step of reconcile_positions or run_recovery (the reconciliation  *)
(* report, the recovery run, its events or the system state change) leaves *)
(* every Trade as it was; the Trade table changes only in a step of        *)
(* recover_extra_position or recover_missing_position.                     *)
C16_TradesOnlyByExplicitRecovery ==
    [][/\ (\/ reconciliation' # reconciliation
           \/ recovery_run' # recovery_run
           \/ recovery_events' # recovery_events
           \/ system_state' # system_state) => trades' = trades
       /\ trades' # trades =>
             \/ \E i \in 1..Len(LastDiscrepancies), s \in StrategyIds :
                    RecoverExtraPosition(i, s)
             \/ \E i \in 1..Len(LastDiscrepancies) : RecoverMissingPosition(i)]_vars

(* reconcile_positions and run_recovery have both found a discrepancy and  *)
(* the one Trade is as it began, OPEN and not a recovered one              *)
C16_Witness ==
    /\ LastDiscrepancies # <<>>
    /\ recovery_run # None /\ Val(recovery_run).reconciliation_failed
    /\ recovery_events # <<>>
    /\ trades = <<TradeRow(1, "AAPL", 1, 10, 2, None, None, FALSE)>>


-----------------------------------------------------------------------------
(* Crash detection from the heartbeat; the clock counts minutes            *)

(* RecoveryService.detect_crash; raised: the query of the state raises *)
CrashAtTimeout(raised) ==
    IF raised THEN FALSE
    ELSE IF system_state = None THEN FALSE
    ELSE now - Val(system_state).last_updated >= crash_timeout_minutes
detect_crash(raised) ==
    IF raised THEN FALSE
    ELSE IF system_state = None THEN FALSE
    ELSE IF now - Val(system_state).last_updated > crash_timeout_minutes THEN TRUE
    ELSE FALSE

DetectCrash(raised) ==
    /\ crash_check' = Some([raised |-> raised, result |-> detect_crash(raised),
                            at |-> now, system_state |-> system_state])
    /\ UNCHANGED <<system_state, recovery_events, recovery_run>>
    /\ UNCHANGED <<strategyVars, tradingVars, brokerVars, sizerVars, riskVars, reconVars,
                   monitorVars, clientVars>>

(* Minutes pass *)
Advance(minutes) ==
    /\ now + minutes <= MaxClock
    /\ now' = now + minutes
    /\ UNCHANGED <<trades, orders, ib_trades, calls>>
    /\ UNCHANGED <<strategyVars, brokerVars, sizerVars, riskVars, reconVars, recoveryVars,
                   monitorVars, clientVars>>

InitCrash ==
    /\ IdleStrategies /\ IdleTrading /\ IdleBroker /\ IdleSizer /\ IdleRisk /\ IdleRecon
    /\ IdleRecovery /\ IdleMonitor /\ IdleClient

NextCrash ==
    \/ \E raised \in BOOLEAN : DetectCrash(raised)
    \/ UpdateHeartbeat
    \/ \E minutes \in {1, 4} : Advance(minutes)

SpecCrash == InitCrash /\ [][NextCrash]_vars

-----------------------------------------------------------------------------
(* C18: a reset_daily_counters step leaves consecutive_losses_today 0 for  *)
(* every strategy and every strategy's status (and active flag and warm-up *)
(* count) as it was: a strategy paused by the loss limit stays paused.     *)
C18_ResetKeepsStatus ==
    [][ResetDailyCounters =>
          \A s \in StrategyIds :
              /\ strategies'[s].consecutive_losses_today = 0
              /\ strategies'[s] = [strategies[s] EXCEPT !.consecutive_losses_today = 0]]_vars

(* every counter is 0 and a strategy that the loss limit paused (its       *)
(* active flag is still set) is paused                                     *)
C18_Witness ==
    /\ \A s \in StrategyIds : strategies[s].consecutive_losses_today = 0
    /\ \A s \in StrategyIds : loss_run[s] = LossRunBase(strategies[s])
    /\ \E s \in StrategyIds : strategies[s].status = "paused" /\ strategies[s].active


-----------------------------------------------------------------------------
-----------------------------------------------------------------------------
(* IBKRClient.connect: the retry loop.  An attempt ends in one of three    *)
(* ways: ib.connect returns and isConnected() is true; ib.connect returns  *)
(* and isConnected() is false; ib.connect raises.                          *)
RECURSIVE Pow2(_)
Pow2(n) == IF n = 0 THEN 1 ELSE 2 * Pow2(n - 1)

AttemptOutcomes == {"connected", "not_connected", "raised"}
RetryDelays == {1, 2, 5}

(* connect up to its first attempt *)
Connect(max_retries, retry_delay) ==
    /\ connection = None
    /\ connection' = Some([max_retries |-> max_retries, retry_delay |-> retry_delay,
                           pc |-> IF connected THEN "returned" ELSE "attempt",
                           attempt |-> 1, outcomes |-> <<>>, waits |-> <<>>,
                           wait_time |-> 0,
                           result |-> IF connected THEN Some(TRUE) ELSE None])
    /\ UNCHANGED <<strategyVars, tradingVars, brokerVars, sizerVars, riskVars, reconVars,
                   recoveryVars, monitorVars>>

(* One pass of the loop body up to the sleep, the return or the raise.     *)
(* waits[k] is the time slept between attempt k and attempt k + 1.         *)
Attempt(outcome) ==
    /\ connection # None
    /\ LET c == Val(connection)
           c1 == [c EXCEPT !.outcomes = Append(@, outcome)]
       IN /\ c.pc = "attempt"
          /\ IF outcome = "connected"
             THEN /\ connected' = TRUE
                  /\ connection' = Some([c1 EXCEPT !.pc = "returned", !.result = Some(TRUE)])
             ELSE /\ UNCHANGED connected
                  /\ connection' = Some(
                        IF outcome = "not_connected"
                        THEN IF c.attempt < c.max_retries
                             THEN [c1 EXCEPT !.attempt = @ + 1, !.waits = Append(@, 0)]
                             ELSE [c1 EXCEPT !.pc = "returned", !.result = Some(FALSE)]
                        ELSE IF c.attempt < c.max_retries
                             THEN [c1 EXCEPT !.pc = "sleep",
                                             !.wait_time = c.retry_delay * Pow2(c.attempt - 1)]
                             ELSE [c1 EXCEPT !.pc = "raised"])
    /\ UNCHANGED account
    /\ UNCHANGED <<strategyVars, tradingVars, sizerVars, riskVars, reconVars,
                   recoveryVars, monitorVars>>

(* time.sleep(wait_time), then the next attempt *)
Backoff ==
    /\ connection # None
    /\ Val(connection).pc = "sleep"
    /\ connection' = Some([Val(connection) EXCEPT !.pc = "attempt", !.attempt = @ + 1,
                                                  !.waits = Append(@, Val(connection).wait_time)])
    /\ UNCHANGED <<strategyVars, tradingVars, brokerVars, sizerVars, riskVars, reconVars,
                   recoveryVars, monitorVars>>

InitConnect ==
    /\ IdleStrategies /\ IdleTrading /\ IdleSizer /\ IdleRisk /\ IdleRecon
    /\ IdleRecovery /\ IdleMonitor /\ IdleClient
    /\ account = [NetLiquidation |-> 10000, BuyingPower |-> 10000]
    /\ connected \in BOOLEAN

NextConnect ==
    \/ \E max_retries \in 1..MaxRetries, retry_delay \in RetryDelays :
            Connect(max_retries, retry_delay)
    \/ \E outcome \in AttemptOutcomes : Attempt(outcome)
    \/ Backoff

SpecConnect == InitConnect /\ [][NextConnect]_vars

(* C20: connect makes at most max_retries attempts; between a failed       *)
(* attempt k and the next it has waited retry_delay * 2^(k-1) seconds; it  *)
(* returns True at the first attempt that succeeds; when max_retries       *)
(* attempts have failed it has raised ConnectionError.                     *)
C20_ConnectBackoff ==
    connection # None =>
        LET c == Val(connection)
            n == Len(c.outcomes)
        IN /\ n <= c.max_retries
           /\ \A k \in 1..Len(c.waits) : c.waits[k] = c.retry_delay * Pow2(k - 1)
           /\ \A k \in 1..n :
                 c.outcomes[k] = "connected" =>
                     k = n /\ c.pc = "returned" /\ c.result = Some(TRUE)
           /\ (n = c.max_retries /\ \A k \in 1..n : c.outcomes[k] # "connected")
                 => c.pc = "raised"
           /\ c.pc = "returned" => c.result = Some(TRUE)


-----------------------------------------------------------------------------
(* An OPEN Trade with its two protective orders at the broker, watched by  *)
(* monitor_protective_orders and by the order sweep.                       *)

(* The PENDING orders of a trade: monitor_protective_orders' query *)
PendingOrdersOf(trade_id) ==
    {o \in 1..Len(orders) : orders[o].trade_id = Some(trade_id) /\ orders[o].status = "PENDING"}

(* Those of them the broker shows Filled *)
WhateverTheBrokerSays(os) == os
FilledAtBroker(os) == {o \in os : ib_trades[orders[o].broker_order_id].status = "Filled"}

SetMax(S) == CHOOSE x \in S : \A y \in S : y <= x

(* monitor_protective_orders(trade_id).  The loop visits the PENDING       *)
(* orders in turn; every one the broker shows Filled is set FILLED and     *)
(* writes the close of the trade, so the last of them leaves its price.    *)
MonitorProtectiveOrders(trade_id) ==
    /\ trade_id \in 1..Len(trades)
    /\ trades[trade_id].status = "OPEN"
    /\ LET filled == FilledAtBroker(PendingOrdersOf(trade_id))
       IN /\ filled # {}
          /\ orders' = [o \in 1..Len(orders) |->
                 IF o \in filled
                 THEN [orders[o] EXCEPT
                         !.status = "FILLED", !.filled_at = Some(now),
                         !.filled_price = Some(ib_trades[orders[o].broker_order_id].avgFillPrice)]
                 ELSE orders[o]]
          /\ trades' = [trades EXCEPT ![trade_id] =
                 ClosedAt(@, now, ib_trades[orders[SetMax(filled)].broker_order_id].avgFillPrice)]
    /\ UNCHANGED <<ib_trades, calls, now>>
    /\ UNCHANGED <<strategyVars, brokerVars, sizerVars, riskVars, reconVars, recoveryVars,
                   monitorVars, clientVars>>

(* monitor_orders: update_order_status for an order that is PENDING *)
MonitorOrdersRead(k, o) == orders[o].status = "PENDING" /\ SweepRead(k, o)

(* execute_signal has returned success for (strategy 1, AAPL): the entry   *)
(* filled at 101, stop at 95 and target at 110 are working at the broker   *)
InitProtect ==
    /\ IdleStrategies
    /\ trades = <<TradeRow(1, "AAPL", 2, 101, 20, Some(95), Some(110), FALSE)>>
    /\ orders = << [OrderRow(Some(1), "AAPL", "MARKET", "BUY", 20, None, None, 1, 1)
                      EXCEPT !.status = "FILLED", !.filled_at = Some(2),
                             !.filled_price = Some(101)],
                   OrderRow(Some(1), "AAPL", "STOP", "SELL", 20, Some(95), None, 2, 3),
                   OrderRow(Some(1), "AAPL", "LIMIT", "SELL", 20, None, Some(110), 3, 4) >>
    /\ ib_trades = << [placeOrder("AAPL", "BUY", "MKT", 20, None, None)
                         EXCEPT !.status = "Filled", !.avgFillPrice = 101, !.filled = 20],
                      placeOrder("AAPL", "SELL", "STP", 20, Some(95), None),
                      placeOrder("AAPL", "SELL", "LMT", 20, None, Some(110)) >>
    /\ calls = <<>> /\ now = 5
    /\ IdleBroker /\ IdleSizer /\ IdleRisk /\ IdleRecon /\ IdleRecovery /\ IdleClient
    /\ sweeps = [k \in SweepIds |-> None]

NextProtect ==
    \/ \E trade_id \in 1..Len(trades) : MonitorProtectiveOrders(trade_id)
    \/ \E k \in SweepIds, o \in 1..Len(orders) : MonitorOrdersRead(k, o)
    \/ \E k \in SweepIds : SweepWrite(k)
    \/ \E b \in 1..Len(ib_trades), price \in AllPrices : IbFill(b, price)
    \/ \E b \in 1..Len(ib_trades), status \in BrokerStatuses : IbStatus(b, status)

(* Both monitors keep being run: a step of either that is possible is      *)
(* taken in the end                                                        *)
SpecProtect ==
    /\ InitProtect /\ [][NextProtect]_vars
    /\ WF_vars(\E trade_id \in 1..Len(trades) : MonitorProtectiveOrders(trade_id))
    /\ WF_vars(\E k \in SweepIds, o \in 1..Len(orders) : MonitorOrdersRead(k, o))
    /\ WF_vars(\E k \in SweepIds : SweepWrite(k))

(* C21: when a protective order of the OPEN Trade is filled at the broker, *)
(* the Trade is CLOSED in the end with exit_price that order's fill price, *)
(* whichever way the sweep and monitor_protective_orders interleave; the   *)
(* protective orders are orders 2 (stop) and 3 (target).                   *)
C21_FilledProtectiveOrderClosesTrade ==
    \A o \in {2, 3} :
        (ib_trades[o].status = "Filled" /\ trades[1].status = "OPEN")
        ~> (/\ trades[1].status = "CLOSED"
            /\ trades[1].exit_price = Some(ib_trades[o].avgFillPrice))


-----------------------------------------------------------------------------
(* The life of a Trade: execute_signal from its fill wait on, the monitor  *)
(* of the protective orders, and the repair of a position the broker does  *)
(* not report.                                                             *)
NextLife ==
    \/ \E c \in Callers : ExecPoll(c)
    \/ \E c \in Callers : ExecSubmitStopLoss(c)
    \/ \E c \in Callers : ExecSubmitTakeProfit(c)
    \/ \E b \in 1..Len(ib_trades), status \in BrokerStatuses : IbStatus(b, status)
    \/ \E b \in 1..Len(ib_trades), price \in AllPrices : IbFill(b, price)
    \/ \E trade_id \in 1..Len(trades) : MonitorProtectiveOrders(trade_id)
    \/ Reconcile
    \/ \E i \in 1..Len(LastDiscrepancies) : RecoverMissingPosition(i)
    \/ IbDisconnect
    \/ IbReconnect

SpecLife == InitOrders /\ [][NextLife]_vars

(* C22: a Trade has profit_loss, and exit_price, exactly when its status   *)
(* is CLOSED; an OPEN Trade carries neither.                               *)
C22_PnlIffClosed ==
    \A t \in 1..Len(trades) :
        /\ trades[t].profit_loss # None <=> trades[t].status = "CLOSED"
        /\ trades[t].exit_price # None <=> trades[t].status = "CLOSED"

(* a Trade closed by the fill of a protective order, with its P&L *)
C22_Witness ==
    \E t \in 1..Len(trades) :
        /\ trades[t].status = "CLOSED" /\ ~trades[t].recovered
        /\ trades[t].exit_price # None
        /\ trades[t].profit_loss =
               Some((Val(trades[t].exit_price) - trades[t].entry_price) * trades[t].quantity)


-----------------------------------------------------------------------------
ProtectiveOrdersOf(trade_id) ==
    {o \in 1..Len(orders) : /\ orders[o].trade_id = Some(trade_id)
                            /\ orders[o].order_type \in {"STOP", "LIMIT"}}

(* C23: when the stop-loss or the take-profit order cannot be submitted    *)
(* after the entry has filled, execute_signal returns a failure at once:   *)
(* it places no further broker order, leaves every row and every broker    *)
(* order as it is, and the entry Order stays FILLED and the Trade OPEN.    *)
C23_ProtectiveFailureKeepsEntry ==
    [][\A c \in Callers :
          (/\ calls[c].pc \in {"stop", "take_profit"}
           /\ calls'[c] # calls[c]
           /\ Len(ib_trades') = Len(ib_trades))
          => /\ calls'[c].pc = "returned"
             /\ ~Val(calls'[c].result).success
             /\ ib_trades' = ib_trades /\ orders' = orders /\ trades' = trades
             /\ orders'[Val(calls[c].market_order)].status = "FILLED"
             /\ trades'[Val(calls[c].trade)].status = "OPEN"]_vars

(* a failed call has left an OPEN Trade without any protective order *)
C23_Witness ==
    \E c \in Callers :
        /\ calls[c].pc = "returned" /\ ~Val(calls[c].result).success
        /\ calls[c].trade # None
        /\ trades[Val(calls[c].trade)].status = "OPEN"
        /\ orders[Val(calls[c].market_order)].status = "FILLED"
        /\ ProtectiveOrdersOf(Val(calls[c].trade)) = {}


-----------------------------------------------------------------------------
(* The last reconciliation is of the tables as they are now *)
ReconciliationCurrent ==
    /\ reconciliation # None /\ Val(reconciliation).result # None
    /\ Val(Val(reconciliation).result) = reconcile_positions(broker_positions, trades)

(* trades and trades' are the table before and after a repair of symbol    *)
(* sym: reconcile_positions, run again on the same broker positions, has   *)
(* nothing to report for sym, and the Trades of other symbols are as they  *)
(* were.                                                                   *)
Repaired(sym) ==
    /\ DiscrepanciesFor(reconcile_positions(broker_positions, trades'), sym) = {}
    /\ \A t \in 1..Len(trades) : trades[t].stock_id # sym => trades'[t] = trades[t]
    /\ \A t \in (Len(trades) + 1)..Len(trades') : trades'[t].stock_id = sym

(* C24: after reconcile_positions has reported EXTRA_AT_BROKER or          *)
(* MISSING_AT_BROKER for a symbol and the matching repair has been applied,*)
(* a second reconcile_positions on the same broker positions reports       *)
(* nothing for that symbol, and the Trades of other symbols are unchanged. *)
C24_RepairConverges ==
    [][\A i \in 1..Len(LastDiscrepancies) :
          (/\ ReconciliationCurrent
           /\ \/ \E s \in StrategyIds : RecoverExtraPosition(i, s)
              \/ RecoverMissingPosition(i))
          => Repaired(LastDiscrepancies[i].symbol)]_vars

(* the same, for broker positions of at least one whole share *)
C24_RepairConvergesWholeShares ==
    [][\A i \in 1..Len(LastDiscrepancies) :
          (/\ ReconciliationCurrent
           /\ \/ /\ LastDiscrepancies[i].broker_quantity # 0
                 /\ \E s \in StrategyIds : RecoverExtraPosition(i, s)
              \/ RecoverMissingPosition(i))
          => Repaired(LastDiscrepancies[i].symbol)]_vars


-----------------------------------------------------------------------------
(* C25: a run_recovery that completes lists as orphaned every Trade of the *)
(* last 24 hours that has no broker order reference (a Trade has no such   *)
(* column, so every one of them), and records the finding in the           *)
(* actions_taken of its RecoveryEvent.                                     *)
C25_OrphanedTradesReported ==
    (recovery_run # None /\ Val(recovery_run).fault = "none") =>
        LET run == Val(recovery_run)
            event == recovery_events[Val(run.event)]
            recent == {i \in 1..Len(trades) :
                          trades[i].entry_time >= event.timestamp - orphan_window_hours}
        IN /\ recent \subseteq Range(run.orphaned_trades)
           /\ recent # {} => \E j \in 1..Len(event.actions_taken) :
                                 event.actions_taken[j] = "Found orphaned trades"


-----------------------------------------------------------------------------
(* A restart: the heartbeat goes stale, the crash is detected, recovery    *)
(* runs once.                                                              *)
InitRestart ==
    /\ IdleStrategies
    /\ trades \in SeqsUpTo({TradeRow(1, "AAPL", 1, 10, 2, None, None, FALSE)}, 1)
    /\ orders = <<>> /\ ib_trades = <<>> /\ calls = <<>> /\ now = 1
    /\ IdleBroker /\ IdleSizer /\ IdleRisk
    /\ broker_positions \in SeqsUpTo({p \in IbPositions : p.symbol = "AAPL"}, 1)
    /\ reconciliation = None
    /\ system_state \in {None, Some(SystemState(1))}
    /\ recovery_events = <<>> /\ recovery_run = None /\ crash_check = None
    /\ IdleMonitor /\ IdleClient

NextRestart ==
    \/ \E has_client \in BOOLEAN, fault \in Faults, failure_event_ok \in BOOLEAN :
            recovery_run = None /\ RunRecovery(has_client, fault, failure_event_ok)
    \/ \E raised \in BOOLEAN : DetectCrash(raised)
    \/ UpdateHeartbeat
    \/ \E minutes \in {3} : Advance(minutes)
    \/ IbDisconnect
    \/ IbReconnect

SpecRestart == InitRestart /\ [][NextRestart]_vars

SkippedAction == "Position reconciliation skipped - IBKR client not available"

(* The discrepancies reconcile_positions hands to run_recovery *)
ReturnedDiscrepancies(has_client) ==
    IF has_client /\ connected
    THEN reconcile_positions(broker_positions, trades).discrepancies ELSE <<>>

(* C26: a run_recovery whose database steps all succeed leaves the         *)
(* heartbeat RUNNING and updated, and appends exactly one RecoveryEvent,   *)
(* with success = true and discrepancies_found = the number of             *)
(* discrepancies reconciliation returned (0 and the action "reconciliation *)
(* skipped" without a broker client); detect_crash is then false.  The     *)
(* heartbeat is written first: it is RUNNING also when the write of the    *)
(* event fails.                                                            *)
C26_RecoveryRun ==
    [][\A has_client \in BOOLEAN :
          /\ RunRecovery(has_client, "none", TRUE) =>
                /\ system_state' = Some([last_updated |-> now, system_status |-> "RUNNING"])
                /\ Len(recovery_events') = Len(recovery_events) + 1
                /\ SubSeq(recovery_events', 1, Len(recovery_events)) = recovery_events
                /\ LET event == recovery_events'[Len(recovery_events')]
                   IN /\ event.success
                      /\ event.discrepancies_found = Len(ReturnedDiscrepancies(has_client))
                      /\ ~has_client =>
                            /\ event.discrepancies_found = 0
                            /\ \E j \in 1..Len(event.actions_taken) :
                                   event.actions_taken[j] = SkippedAction
                /\ ~detect_crash(FALSE)'
          /\ (\E ok \in BOOLEAN : RunRecovery(has_client, "log_event", ok)) =>
                /\ system_state' = Some([last_updated |-> now, system_status |-> "RUNNING"])
                /\ \A i \in (Len(recovery_events) + 1)..Len(recovery_events') :
                       ~recovery_events'[i].success]_vars

(* detect_crash has reported a stale heartbeat, and a recovery has since   *)
(* completed and written the heartbeat                                     *)
C26_Witness ==
    /\ crash_check # None /\ Val(crash_check).result
    /\ recovery_run # None /\ Val(recovery_run).fault = "none"
    /\ recovery_events[Val(Val(recovery_run).event)].success
    /\ recovery_events[Val(Val(recovery_run).event)].timestamp >= Val(crash_check).at
    /\ system_state # None /\ Val(system_state).last_updated >= Val(crash_check).at
    /\ ~detect_crash(FALSE)


-----------------------------------------------------------------------------
(* C27: a strategy whose status is 'paused' or 'error' has active = False, *)
(* in every state reachable through the activation workflow and the        *)
(* loss-limit detector.                                                    *)
C27_PausedOrErrorIsInactive ==
    \A s \in StrategyIds :
        strategies[s].status \in {"paused", "error"} => ~strategies[s].active

-----------------------------------------------------------------------------
(* C28: FILLED and CANCELLED are terminal: an Order whose local status is  *)
(* one of them keeps that status in every later step of                    *)
(* update_order_status, monitor_orders and _wait_for_fill, whatever the    *)
(* broker reports.                                                         *)
C28_TerminalStatuses ==
    [][\A o \in 1..Len(orders) :
          orders[o].status \in {"FILLED", "CANCELLED"}
              => orders'[o].status = orders[o].status]_vars


-----------------------------------------------------------------------------
(* Trades the broker no longer holds are force-closed by                   *)
(* recover_missing_position and then handed to the loss-limit detector,    *)
(* next to trades closed at a loss.                                        *)
InitForceClosed ==
    /\ IdleStrategies
    /\ trades = << ClosedAt(TradeRow(1, "AAPL", 1, 100, 20, Some(95), Some(110), FALSE), 2, 95),
                   TradeRow(1, "MSFT", 1, 100, 20, Some(95), Some(110), FALSE),
                   ClosedAt(TradeRow(2, "AAPL", 1, 100, 20, Some(95), Some(110), FALSE), 2, 95),
                   TradeRow(2, "MSFT", 1, 100, 20, Some(95), Some(110), FALSE) >>
    /\ orders = <<>> /\ ib_trades = <<>> /\ calls = <<>> /\ now = 2
    /\ IdleBroker /\ IdleSizer /\ IdleRisk
    /\ broker_positions \in SeqsUpTo({p \in IbPositions : p.symbol = "AAPL"}, 1)
    /\ reconciliation = None
    /\ IdleRecovery /\ IdleMonitor /\ IdleClient

NextForceClosed ==
    \/ \E trade_id \in 0..Len(trades) : TrackTradeOutcome(trade_id)
    \/ ResetDailyCounters
    \/ Reconcile
    \/ \E i \in 1..Len(LastDiscrepancies) : RecoverMissingPosition(i)
    \/ IbDisconnect
    \/ IbReconnect

SpecForceClosed == InitForceClosed /\ [][NextForceClosed]_vars

MissingAtBroker(t) ==
    /\ t.status = "CLOSED" /\ t.recovered
    /\ t.recovery_reason = Some("missing_at_broker")
    /\ t.profit_loss = Some(0)

(* C29: track_trade_outcome on a Trade that recover_missing_position has   *)
(* force-closed sets the strategy's consecutive_losses_today to 0 and      *)
(* changes nothing else of it: it is not counted as a loss and does not    *)
(* pause the strategy.                                                     *)
C29_ForceClosedIsNoLoss ==
    [][\A trade_id \in 1..Len(trades) :
          (MissingAtBroker(trades[trade_id]) /\ TrackTradeOutcome(trade_id))
          => LET sid == trades[trade_id].strategy_id
             IN /\ strategies'[sid] = [strategies[sid] EXCEPT !.consecutive_losses_today = 0]
                /\ \A s \in StrategyIds \ {sid} : strategies'[s] = strategies[s]]_vars

(* the only non-loss of strategy 1 is its force-closed Trade: it has been  *)
(* tracked after three losses and has reset the counter                    *)
C29_Witness ==
    /\ MissingAtBroker(trades[2])
    /\ loss_run[1] = 4
    /\ strategies[1].consecutive_losses_today = 0
    /\ strategies[1].status = "paused"


-----------------------------------------------------------------------------
(* C30: monitor_protective_orders cancels nothing.  In the call that       *)
(* closes a Trade, the broker's orders are left as they are and a          *)
(* protective order the broker has not filled keeps its row, PENDING; and  *)
(* a call for a Trade that is not OPEN does nothing, so the sibling is     *)
(* never touched by a later call.                                          *)
C30_SiblingLeftPending ==
    [][\A trade_id \in 1..Len(trades) :
          MonitorProtectiveOrders(trade_id) =>
              /\ trades[trade_id].status = "OPEN"
              /\ ib_trades' = ib_trades
              /\ \A o \in 1..Len(orders) :
                     (/\ orders[o].trade_id = Some(trade_id)
                      /\ ib_trades[orders[o].broker_order_id].status # "Filled")
                     => orders'[o] = orders[o]]_vars

(* the Trade is closed by its filled stop-loss order, and the take-profit  *)
(* order is still PENDING and live at the broker                           *)
C30_Witness ==
    /\ trades[1].status = "CLOSED"
    /\ orders[2].status = "FILLED"
    /\ orders[3].status = "PENDING"
    /\ ib_trades[orders[3].broker_order_id].status = "Submitted"


=============================================================================
